---- MODULE Spec2Model ----
(***************************************************************************)
(* xportspot: track matching (YouTubeMusicService.search_track and         *)
(* _calculate_similarity_score) and the playlist transfer paths.           *)
(*                                                                         *)
(* Strings are sequences of one-character strings, so that lower(),        *)
(* strip(), re.sub() and split() are modelled by what they do to the       *)
(* characters.  Scores are exact rationals [num, den]: for token sets of   *)
(* at most three tokens (all the model builds) every comparison the code   *)
(* makes on the binary64 values agrees with the comparison of the exact    *)
(* values.                                                                 *)
(***************************************************************************)
EXTENDS Integers, Sequences, FiniteSets, TLC

VARIABLES
    pc,             \* position of the operation under way: "call" or "done"
    track1, artist1, track2, artist2,   \* arguments of _calculate_similarity_score
    score_ret,      \* its return value
    norm_s,         \* argument of normalize
    norm_ret,       \* the words of normalize(s).split()
    track_name, artist_name,            \* arguments of search_track
    search_results, \* what ytmusic.search returned
    best_match, best_score,             \* locals of search_track at exit
    search_ret,     \* return value of search_track
    run,            \* the transfer path that runs
    playlist_songs, \* the songs of the playlist, by position
    job,            \* the TransferJob the running path works on
    song_results,   \* the SongTransferResult rows, in creation order
    youtube_video_ids,  \* local list of transfer_playlist
    added_items,    \* the add_playlist_items calls made, with the song of each
    position,       \* number of playlist songs the running loop has consumed
    requests,       \* the start_transfer requests under way, each with its transaction
    db_jobs,        \* the committed TransferJob rows of the playlist
    connections,    \* the active connections get_unified_stats reads, with their stats rows
    unified_stats,  \* return value of get_unified_stats
    self_connections, other_connections,    \* the connections of self.user and other_user
    user1_stats, user2_stats,               \* locals of calculate_music_compatibility
    compatibility,  \* return value of calculate_music_compatibility
    response,       \* the Response of the music_compatibility view
    friendships,    \* the accepted friendships of self.user, with each friend's data
    limit,          \* argument of get_music_recommendations
    models_found,   \* whether "from .models import MusicCompatibility" finds a module
    recommendations \* return value of get_music_recommendations

vars == <<pc, track1, artist1, track2, artist2, score_ret, norm_s, norm_ret,
          track_name, artist_name, search_results, best_match, best_score,
          search_ret, run, playlist_songs, job, song_results, youtube_video_ids,
          added_items, position, requests, db_jobs, connections, unified_stats, self_connections,
          other_connections, user1_stats, user2_stats, compatibility, response,
          friendships, limit, models_found, recommendations>>

scoreVars  == <<track1, artist1, track2, artist2, score_ret>>
normVars   == <<norm_s, norm_ret>>
searchVars == <<track_name, artist_name, search_results, best_match, best_score,
                search_ret>>
jobsVars == <<requests, db_jobs>>
transferVars == <<run, playlist_songs, job, song_results, youtube_video_ids,
                  added_items, position, jobsVars>>
requestVars == <<response, friendships, limit, models_found, recommendations>>
analysisVars == <<connections, unified_stats, self_connections, other_connections,
                  user1_stats, user2_stats, compatibility, response, friendships,
                  limit, models_found, recommendations>>

----------------------------------------------------------------------------
(* Bounds *)

MaxLen == 3          \* longest enumerated string
MaxResults == 2      \* longest enumerated list of search results
MaxSongs == 2        \* longest enumerated playlist
MaxItems == 2        \* longest enumerated top_artists, top_genres or top_tracks list
MaxPlatforms == 2    \* most connections of one user
MaxMinutes == 4      \* largest enumerated total_minutes
MaxNames == 7        \* names in the pool the ranged top lists are cut from
MaxFriends == 2      \* most friends whose data is enumerated freely
MaxRequests == 2     \* concurrent start_transfer requests

----------------------------------------------------------------------------
(* Characters and Python's str / re operations *)

LowerLetters == {"a","b","c","d","e","f","g","h","i","j","k","l","m",
                 "n","o","p","q","r","s","t","u","v","w","x","y","z"}

LowerOf == [c \in {"A","B","C","D","E","F","G","H","I","J","K","L","M",
                   "N","O","P","Q","R","S","T","U","V","W","X","Y","Z"} |->
              CASE c = "A" -> "a" [] c = "B" -> "b" [] c = "C" -> "c"
                [] c = "D" -> "d" [] c = "E" -> "e" [] c = "F" -> "f"
                [] c = "G" -> "g" [] c = "H" -> "h" [] c = "I" -> "i"
                [] c = "J" -> "j" [] c = "K" -> "k" [] c = "L" -> "l"
                [] c = "M" -> "m" [] c = "N" -> "n" [] c = "O" -> "o"
                [] c = "P" -> "p" [] c = "Q" -> "q" [] c = "R" -> "r"
                [] c = "S" -> "s" [] c = "T" -> "t" [] c = "U" -> "u"
                [] c = "V" -> "v" [] c = "W" -> "w" [] c = "X" -> "x"
                [] c = "Y" -> "y" [] c = "Z" -> "z"]

Digits == {"0","1","2","3","4","5","6","7","8","9"}

\* \w of a str pattern: letters, digits and the underscore
IsWordChar(c) == c \in LowerLetters \cup DOMAIN LowerOf \cup Digits \cup {"_"}

\* \s, and the separators of str.split() and str.strip()
IsSpace(c) == c \in {" ", "\t", "\n"}

\* Python's None where a str is expected: a value that is not a str
None == <<"None">>

\* Python's None where a search result (a dict) is expected
NoneResult == [none |-> TRUE]

\* str.lower()
lower(s) == [i \in 1..Len(s) |-> IF s[i] \in DOMAIN LowerOf THEN LowerOf[s[i]] ELSE s[i]]

RECURSIVE lstrip(_)
lstrip(s) == IF s # <<>> /\ IsSpace(Head(s)) THEN lstrip(Tail(s)) ELSE s

RECURSIVE rstrip(_)
rstrip(s) == IF s # <<>> /\ IsSpace(s[Len(s)]) THEN rstrip(SubSeq(s, 1, Len(s) - 1)) ELSE s

\* str.strip()
strip(s) == rstrip(lstrip(s))

\* a plausible slip: only the first match is removed (count=1)
RECURSIVE re_sub_once(_)
re_sub_once(s) ==
    IF s = <<>> THEN s
    ELSE IF IsWordChar(Head(s)) \/ IsSpace(Head(s))
         THEN <<Head(s)>> \o re_sub_once(Tail(s))
         ELSE Tail(s)

\* re.sub(r'[^\w\s]', '', s)
re_sub(s) == SelectSeq(s, LAMBDA c : IsWordChar(c) \/ IsSpace(c))

\* def normalize(s): return re.sub(r'[^\w\s]', '', s.lower().strip())
normalize(s) == re_sub(strip(lower(s)))

\* str.split(): the maximal runs of non-whitespace characters, in order
RECURSIVE split_from(_, _, _)
split_from(s, i, word) ==
    IF i > Len(s) THEN (IF word = <<>> THEN <<>> ELSE <<word>>)
    ELSE IF IsSpace(s[i])
         THEN (IF word = <<>> THEN <<>> ELSE <<word>>) \o split_from(s, i + 1, <<>>)
         ELSE split_from(s, i + 1, Append(word, s[i]))

split(s) == split_from(s, 1, <<>>)

\* list[::-1]
Reverse(s) == [i \in 1..Len(s) |-> s[Len(s) + 1 - i]]

\* set(list)
set(l) == {l[i] : i \in 1..Len(l)}

\* max(a, b, 1)
max3(a, b, c) == IF a >= b /\ a >= c THEN a ELSE IF b >= c THEN b ELSE c

----------------------------------------------------------------------------
(* Exact rationals for the float scores *)

Rat(n, d) == [num |-> n, den |-> d]
RatGT(x, y) == x.num * y.den > y.num * x.den
RatEQ(x, y) == x.num * y.den = y.num * x.den
RatLE(x, y) == ~RatGT(x, y)

RatAdd(x, y) == Rat(x.num * y.den + y.num * x.den, x.den * y.den)
RatMul(x, y) == Rat(x.num * y.num, x.den * y.den)

Zero == Rat(0, 1)
One == Rat(1, 1)

----------------------------------------------------------------------------
(* YouTubeMusicService._calculate_similarity_score *)

\* track_words = set(normalize(s).split())
words(s) == set(split(normalize(s)))

\* a plausible slip: the overlap is divided by the size of the first set only
calculate_similarity_score_first_len(t1, a1, t2, a2) ==
    IF None \in {t1, a1, t2, a2}
    THEN Zero
    ELSE LET track_words1 == words(t1)
             track_words2 == words(t2)
             artist_words1 == words(a1)
             artist_words2 == words(a2)
             track_score == Rat(Cardinality(track_words1 \cap track_words2),
                                max3(Cardinality(track_words1), 1, 1))
             artist_score == Rat(Cardinality(artist_words1 \cap artist_words2),
                                 max3(Cardinality(artist_words1), 1, 1))
         IN  RatAdd(RatMul(track_score, Rat(4, 10)), RatMul(artist_score, Rat(6, 10)))

\* a plausible slip: both terms weighted 0.4
calculate_similarity_score_weights(t1, a1, t2, a2) ==
    IF None \in {t1, a1, t2, a2}
    THEN Zero
    ELSE LET track_words1 == words(t1)
             track_words2 == words(t2)
             artist_words1 == words(a1)
             artist_words2 == words(a2)
             track_score == Rat(Cardinality(track_words1 \cap track_words2),
                                max3(Cardinality(track_words1), Cardinality(track_words2), 1))
             artist_score == Rat(Cardinality(artist_words1 \cap artist_words2),
                                 max3(Cardinality(artist_words1), Cardinality(artist_words2), 1))
         IN  RatAdd(RatMul(track_score, Rat(4, 10)), RatMul(artist_score, Rat(4, 10)))

\* a plausible slip: two equal word sets count as a perfect overlap, also when empty
calculate_similarity_score_equal_sets(t1, a1, t2, a2) ==
    IF None \in {t1, a1, t2, a2}
    THEN Zero
    ELSE LET track_words1 == words(t1)
             track_words2 == words(t2)
             artist_words1 == words(a1)
             artist_words2 == words(a2)
             track_score == IF track_words1 = track_words2 THEN One
                            ELSE Rat(Cardinality(track_words1 \cap track_words2),
                                     max3(Cardinality(track_words1), Cardinality(track_words2), 1))
             artist_score == IF artist_words1 = artist_words2 THEN One
                             ELSE Rat(Cardinality(artist_words1 \cap artist_words2),
                                      max3(Cardinality(artist_words1), Cardinality(artist_words2), 1))
         IN  RatAdd(RatMul(track_score, Rat(4, 10)), RatMul(artist_score, Rat(6, 10)))

\* s.lower() on None raises AttributeError, and "except Exception: return 0"
calculate_similarity_score(t1, a1, t2, a2) ==
    IF None \in {t1, a1, t2, a2}
    THEN Zero
    ELSE LET track_words1 == words(t1)
             track_words2 == words(t2)
             artist_words1 == words(a1)
             artist_words2 == words(a2)
             track_intersection == Cardinality(track_words1 \cap track_words2)
             artist_intersection == Cardinality(artist_words1 \cap artist_words2)
             track_score == Rat(track_intersection,
                                max3(Cardinality(track_words1), Cardinality(track_words2), 1))
             artist_score == Rat(artist_intersection,
                                 max3(Cardinality(artist_words1), Cardinality(artist_words2), 1))
         IN  RatAdd(RatMul(track_score, Rat(4, 10)), RatMul(artist_score, Rat(6, 10)))

----------------------------------------------------------------------------
(* Input strings *)

Alphabet == {"a", "b", "A", " ", "!"}

\* every string over Alphabet of at most n characters
Str(n) == UNION {[1..k -> Alphabet] : k \in 0..n}

\* "", "a", "b", "a b", "A b!", "!!"
Names == {<<>>, <<"a">>, <<"b">>, <<"a", " ", "b">>, <<"A", " ", "b", "!">>, <<"!", "!">>}

\* the value of score_ret before _calculate_similarity_score has returned
NoRet == Rat(-1, 1)

----------------------------------------------------------------------------
(* Values of the variables an operation does not use *)

IdleScore == track1 = <<>> /\ artist1 = <<>> /\ track2 = <<>> /\ artist2 = <<>>
             /\ score_ret = NoRet
IdleNormalize == norm_s = <<>> /\ norm_ret = {}
IdleTransfer == run = "none" /\ playlist_songs = <<>> /\ job = [status |-> "none"]
                /\ song_results = <<>> /\ youtube_video_ids = <<>> /\ added_items = <<>>
                /\ position = 0 /\ requests = <<>> /\ db_jobs = <<>>
IdleSearch == track_name = <<>> /\ artist_name = <<>> /\ search_results = <<>>
              /\ best_match = NoneResult /\ best_score = Zero
              /\ search_ret = NoneResult
IdleRequests == response = NoneResult /\ friendships = <<>> /\ limit = 0
                /\ models_found = FALSE /\ recommendations = <<>>
IdleAnalysis == connections = <<>> /\ unified_stats = NoneResult
                /\ IdleRequests
                /\ self_connections = <<>> /\ other_connections = <<>>
                /\ user1_stats = NoneResult /\ user2_stats = NoneResult
                /\ compatibility = NoneResult

----------------------------------------------------------------------------
(* _calculate_similarity_score applied to four strings *)

\* one argument ranges over every string of at most MaxLen characters, the
\* other three over Names
InitScore ==
    /\ pc = "call"
    /\ \/ track1 \in Str(MaxLen) /\ artist1 \in Names /\ track2 \in Names /\ artist2 \in Names
       \/ track1 \in Names /\ artist1 \in Str(MaxLen) /\ track2 \in Names /\ artist2 \in Names
       \/ track1 \in Names /\ artist1 \in Names /\ track2 \in Str(MaxLen) /\ artist2 \in Names
       \/ track1 \in Names /\ artist1 \in Names /\ track2 \in Names /\ artist2 \in Str(MaxLen)
    /\ score_ret = NoRet
    /\ IdleNormalize
    /\ IdleSearch
    /\ IdleTransfer
    /\ IdleAnalysis

\* score(a, b, a, b): both tracks are the same pair of strings
InitSelfScore ==
    /\ pc = "call"
    /\ track1 \in Str(MaxLen) /\ artist1 \in Str(MaxLen)
    /\ track2 = track1 /\ artist2 = artist1
    /\ score_ret = NoRet
    /\ IdleNormalize
    /\ IdleSearch
    /\ IdleTransfer
    /\ IdleAnalysis

CalculateSimilarityScore ==
    /\ pc = "call"
    /\ score_ret' = calculate_similarity_score(track1, artist1, track2, artist2)
    /\ pc' = "done"
    /\ UNCHANGED <<track1, artist1, track2, artist2, normVars, searchVars, transferVars, analysisVars>>

NextScore == CalculateSimilarityScore

SpecScore == InitScore /\ [][NextScore]_vars

SpecSelfScore == InitSelfScore /\ [][NextScore]_vars

----------------------------------------------------------------------------
(* normalize applied to one string *)

InitNormalize ==
    /\ pc = "call"
    /\ norm_s \in Str(MaxLen)
    /\ norm_ret = {}
    /\ IdleScore
    /\ IdleSearch
    /\ IdleTransfer
    /\ IdleAnalysis

Normalize ==
    /\ pc = "call"
    /\ norm_ret' = words(norm_s)
    /\ pc' = "done"
    /\ UNCHANGED <<norm_s, scoreVars, searchVars, transferVars, analysisVars>>

NextNormalize == Normalize

SpecNormalize == InitNormalize /\ [][NextNormalize]_vars

----------------------------------------------------------------------------
(* YouTubeMusicService.search_track *)

\* a plausible slip: "if score >= best_score", which keeps the last of equal scores
better_or_equal(score, best) == ~RatGT(best, score)

\* if score > best_score
better(score, best) == RatGT(score, best)

\* the body of "for result in search_results", from result i on; raised is
\* TRUE when a subscript raised KeyError, which leaves the loop
RECURSIVE search_loop(_, _, _, _, _, _)
search_loop(tn, an, results, i, bm, bs) ==
    IF i > Len(results)
    THEN [raised |-> FALSE, best_match |-> bm, best_score |-> bs]
    ELSE LET result == results[i]
             Raise == [raised |-> TRUE, best_match |-> bm, best_score |-> bs]
         IN  IF "resultType" \notin DOMAIN result THEN Raise
             ELSE IF result.resultType # "song" THEN search_loop(tn, an, results, i + 1, bm, bs)
             ELSE IF "title" \notin DOMAIN result THEN Raise
             ELSE IF "artists" \notin DOMAIN result THEN Raise
             ELSE IF result.artists # <<>> /\ "name" \notin DOMAIN result.artists[1] THEN Raise
             ELSE LET score == calculate_similarity_score(tn, an, result.title,
                                   IF result.artists # <<>> THEN result.artists[1].name
                                                            ELSE <<>>)
                  IN  IF better(score, bs)
                      THEN search_loop(tn, an, results, i + 1, result, score)
                      ELSE search_loop(tn, an, results, i + 1, bm, bs)

\* the confidence floor of "best_score > 0.6"
Threshold == Rat(6, 10)

\* the locals at exit and the value returned; "except Exception: return None"
search_track(tn, an, results) ==
    LET exit == search_loop(tn, an, results, 1, NoneResult, Zero)
    IN  [best_match |-> exit.best_match,
         best_score |-> exit.best_score,
         ret |-> IF exit.raised THEN NoneResult
                 ELSE IF RatGT(exit.best_score, Threshold) THEN exit.best_match
                 ELSE NoneResult]

----------------------------------------------------------------------------
(* search_track applied to a track and a list of search results *)

\* "a b", "A", "b!"
SongTitles == {<<"a", " ", "b">>, <<"A">>, <<"b", "!">>}

\* a result is a dict: a key it lacks is a field missing from its domain
ResultTypes == {"song", "video"}
TitleFields == {[title |-> t] : t \in SongTitles \cup {None}} \cup {<<>>}
ArtistsFields == {[artists |-> <<[name |-> <<"a">>]>>], [artists |-> <<[name |-> <<"b">>]>>],
                  [artists |-> <<[id |-> 1]>>], [artists |-> <<>>]} \cup {<<>>}

Results == {[resultType |-> rt] @@ t @@ a :
                rt \in ResultTypes, t \in TitleFields, a \in ArtistsFields}

\* a list of results; videoId tells the results of a list apart
ResultList(f) == [i \in DOMAIN f |-> [videoId |-> i] @@ f[i]]

BlindingLights == <<"B", "l", "i", "n", "d", "i", "n", "g", " ", "L", "i", "g", "h", "t", "s">>
TheWeeknd == <<"T", "h", "e", " ", "W", "e", "e", "k", "n", "d">>
BlindingLightsRemix == <<"B", "l", "i", "n", "d", "i", "n", "g", " ", "L", "i", "g", "h", "t", "s", " ", "(", "R", "e", "m", "i", "x", ")">>
SaveYourTears == <<"S", "a", "v", "e", " ", "Y", "o", "u", "r", " ", "T", "e", "a", "r", "s">>

ExampleResults ==
    <<[resultType |-> "song", videoId |-> 1, title |-> BlindingLightsRemix,
       artists |-> <<[name |-> TheWeeknd]>>],
      [resultType |-> "song", videoId |-> 2, title |-> SaveYourTears,
       artists |-> <<[name |-> TheWeeknd]>>]>>

InitSearch ==
    /\ pc = "call"
    /\ \/ /\ track_name \in SongTitles
          /\ artist_name = <<"a">>
          /\ \E k \in 0..MaxResults : \E f \in [1..k -> Results] :
                search_results = ResultList(f)
       \/ /\ track_name = BlindingLights
          /\ artist_name = TheWeeknd
          /\ search_results = ExampleResults
    /\ best_match = NoneResult
    /\ best_score = Zero
    /\ search_ret = NoneResult
    /\ IdleScore
    /\ IdleNormalize
    /\ IdleTransfer
    /\ IdleAnalysis

SearchTrack ==
    /\ pc = "call"
    /\ LET exit == search_track(track_name, artist_name, search_results)
       IN  /\ best_match' = exit.best_match
           /\ best_score' = exit.best_score
           /\ search_ret' = exit.ret
    /\ pc' = "done"
    /\ UNCHANGED <<track_name, artist_name, search_results, scoreVars, normVars, transferVars, analysisVars>>

NextSearch == SearchTrack

SpecSearch == InitSearch /\ [][NextSearch]_vars

----------------------------------------------------------------------------
(* Python floats (IEEE 754 binary64) and the integers behind them          *)

\* Natural numbers of any size, as little-endian sequences of limbs below
\* Base with no leading zero limb; <<>> is 0.
LimbBits == 12
Base == 2^LimbBits

RECURSIVE BigNat(_)
BigNat(n) == IF n = 0 THEN <<>> ELSE <<n % Base>> \o BigNat(n \div Base)

RECURSIVE ToInt(_)
ToInt(a) == IF a = <<>> THEN 0 ELSE Head(a) + Base * ToInt(Tail(a))

RECURSIVE Trim(_)
Trim(a) == IF a # <<>> /\ a[Len(a)] = 0 THEN Trim(SubSeq(a, 1, Len(a) - 1)) ELSE a

Limb(a, i) == IF i <= Len(a) THEN a[i] ELSE 0

RECURSIVE AddFrom(_, _, _, _)
AddFrom(a, b, i, carry) ==
    IF i > Len(a) /\ i > Len(b)
    THEN BigNat(carry)
    ELSE LET s == Limb(a, i) + Limb(b, i) + carry
         IN  <<s % Base>> \o AddFrom(a, b, i + 1, s \div Base)

BigAdd(a, b) == AddFrom(a, b, 1, 0)

RECURSIVE MulSmallFrom(_, _, _, _)
MulSmallFrom(a, k, i, carry) ==
    IF i > Len(a)
    THEN BigNat(carry)
    ELSE LET p == a[i] * k + carry
         IN  <<p % Base>> \o MulSmallFrom(a, k, i + 1, p \div Base)

\* a * k for an int k below 2^18
BigMulSmall(a, k) == Trim(MulSmallFrom(a, k, 1, 0))

RECURSIVE BigMul(_, _)
BigMul(a, b) ==
    IF b = <<>> THEN <<>>
    ELSE LET rest == BigMul(a, Tail(b))
         IN  BigAdd(BigMulSmall(a, Head(b)),
                    IF rest = <<>> THEN <<>> ELSE <<0>> \o rest)

RECURSIVE DivSmallFrom(_, _, _, _)
DivSmallFrom(a, d, i, rem) ==
    IF i = 0 THEN [q |-> <<>>, r |-> rem]
    ELSE LET cur == rem * Base + a[i]
             rest == DivSmallFrom(a, d, i - 1, cur % d)
         IN  [q |-> Append(rest.q, cur \div d), r |-> rest.r]

\* quotient and remainder of a by an int d below 2^18
BigDivMod(a, d) ==
    LET x == DivSmallFrom(a, d, Len(a), 0) IN [q |-> Trim(x.q), r |-> x.r]

\* a * 2^k
ShiftLeft(a, k) ==
    IF a = <<>> THEN <<>>
    ELSE [i \in 1..(k \div LimbBits) |-> 0] \o BigMulSmall(a, 2^(k % LimbBits))

\* a \div 2^k
ShiftRight(a, k) ==
    IF k \div LimbBits >= Len(a) THEN <<>>
    ELSE BigDivMod(SubSeq(a, (k \div LimbBits) + 1, Len(a)), 2^(k % LimbBits)).q

RECURSIVE SmallBitLength(_)
SmallBitLength(n) == IF n = 0 THEN 0 ELSE 1 + SmallBitLength(n \div 2)

BitLength(a) ==
    IF a = <<>> THEN 0 ELSE LimbBits * (Len(a) - 1) + SmallBitLength(a[Len(a)])

IsOdd(a) == a # <<>> /\ a[1] % 2 = 1

RECURSIVE LessFrom(_, _, _)
LessFrom(a, b, i) ==
    IF i = 0 THEN FALSE
    ELSE IF a[i] # b[i] THEN a[i] < b[i] ELSE LessFrom(a, b, i - 1)

BigLess(a, b) == Len(a) < Len(b) \/ (Len(a) = Len(b) /\ LessFrom(a, b, Len(a)))

\* round(a / 2^k) with ties to the even neighbour, for k >= 1
RoundShift(a, k) ==
    LET a1 == ShiftRight(a, k - 1)
        q == ShiftRight(a1, 1)
        up == IsOdd(a1) /\ (ShiftLeft(a1, k - 1) # a \/ IsOdd(q))
    IN  IF up THEN BigAdd(q, <<1>>) ELSE q

\* A float is 0.0 or m * 2^e with 2^52 <= m < 2^53.  The values met here are
\* between 2^-1000 and 2^1000, so no subnormal, infinity or NaN arises.
MantissaBits == 53
FloatZero == [m |-> <<>>, e |-> 0]

\* the float nearest to M * 2^E (round to nearest, ties to even)
RoundFloat(M, E) ==
    IF M = <<>> THEN FloatZero
    ELSE LET L == BitLength(M)
         IN  IF L <= MantissaBits
             THEN [m |-> ShiftLeft(M, MantissaBits - L), e |-> E - (MantissaBits - L)]
             ELSE LET k == L - MantissaBits
                      q == RoundShift(M, k)
                  IN  IF BitLength(q) > MantissaBits
                      THEN [m |-> ShiftRight(q, 1), e |-> E + k + 1]
                      ELSE [m |-> q, e |-> E + k]

\* float(n) for an int n >= 0
FloatOfInt(n) == RoundFloat(BigNat(n), 0)

\* a / b for ints a >= 0 and b > 0 below 2^18: the correctly rounded quotient
\* (the last bit of the shifted quotient records a non-zero remainder)
GuardBits == 80
TrueDiv(a, b) ==
    LET x == BigDivMod(ShiftLeft(BigNat(a), GuardBits), b)
    IN  RoundFloat(BigAdd(BigMulSmall(x.q, 2), IF x.r = 0 THEN <<>> ELSE <<1>>),
                   0 - (GuardBits + 1))

\* x * y
FloatMul(x, y) == RoundFloat(BigMul(x.m, y.m), x.e + y.e)

\* x + y
FloatAdd(x, y) ==
    IF x.m = <<>> THEN y
    ELSE IF y.m = <<>> THEN x
    ELSE LET e == IF x.e < y.e THEN x.e ELSE y.e
         IN  RoundFloat(BigAdd(ShiftLeft(x.m, x.e - e), ShiftLeft(y.m, y.e - e)), e)

\* x >= n for an int n > 0
FloatGE(x, n) ==
    /\ x.m # <<>>
    /\ IF x.e >= 0
       THEN ~BigLess(ShiftLeft(x.m, x.e), BigNat(n))
       ELSE ~BigLess(x.m, ShiftLeft(BigNat(n), 0 - x.e))

\* round(x, 1) for x >= 0, as the number of tenths of the result: the decimal
\* with one digit nearest to the exact value of x, ties to the even digit
round1(x) ==
    LET N == BigMulSmall(x.m, 10)
    IN  IF x.e >= 0 THEN ToInt(ShiftLeft(N, x.e)) ELSE ToInt(RoundShift(N, 0 - x.e))

\* the literals 0.6 and 0.4
Float06 == TrueDiv(6, 10)
Float04 == TrueDiv(4, 10)

\* int(x) for x >= 0: the integer part
int_of_float(x) ==
    IF x.m = <<>> THEN 0
    ELSE IF x.e >= 0 THEN ToInt(ShiftLeft(x.m, x.e)) ELSE ToInt(ShiftRight(x.m, 0 - x.e))

----------------------------------------------------------------------------
(* The transfer paths: YouTubeTransferService.transfer_playlist            *)
(* (services/youtube.py), the legacy YouTubeTransferService._process_transfer *)
(* (services.py) and the PaYoutubeMusic.py script                          *)

\* what YouTube Music holds: the search results a query can bring back
Videos == 1..4
Catalogue ==
    [v \in Videos |->
        CASE v = 1 -> [resultType |-> "song", videoId |-> 1, title |-> <<"a", " ", "b">>,
                       artists |-> <<[name |-> <<"a">>]>>]
          [] v = 2 -> [resultType |-> "song", videoId |-> 2, title |-> <<"A">>,
                       artists |-> <<[name |-> <<"a">>]>>]
          [] v = 3 -> [resultType |-> "song", videoId |-> 3, title |-> <<"b", "!">>,
                       artists |-> <<[name |-> <<"b">>]>>]
          [] v = 4 -> [resultType |-> "song", videoId |-> 4, title |-> <<"a", " ", "b">>,
                       artists |-> <<>>]]

\* ytmusic.search: any list of at most n different videos, in any order
SearchOutcomes(n) ==
    UNION {{[i \in 1..k |-> Catalogue[f[i]]] :
                f \in {g \in [1..k -> Videos] : \A i, j \in 1..k : g[i] = g[j] => i = j}} :
           k \in 0..n}

Letters == <<"a", "b", "c", "d", "e", "f", "g", "h", "i", "j", "k", "l", "m",
             "n", "o", "p", "q", "r", "s", "t", "u", "v", "w", "x", "y", "z">>

\* "zaa", "zab", ...: names that differ from each other and from the others
FillerName(i) ==
    <<"z", Letters[((i - 1) \div Len(Letters)) + 1], Letters[((i - 1) % Len(Letters)) + 1]>>

Songs == [name : SongTitles, artist : {<<"a">>, <<"b">>}]

\* the playlists of at most n songs; PlaylistSong is unique in (playlist, song,
\* position), so a song can be in a playlist more than once
Playlists(n) == UNION {[1..k -> Songs] : k \in 0..n}

\* a playlist of 50 different songs
LongPlaylist == [i \in 1..50 |-> [name |-> FillerName(i), artist |-> <<"a">>]]

\* TransferJob.objects.create(..., total_songs=playlist.total_tracks)
NewJob(total_tracks) ==
    [status |-> "pending", total_songs |-> total_tracks, processed_songs |-> 0,
     successful_transfers |-> 0, failed_transfers |-> 0, progress_percentage |-> 0,
     started_at |-> FALSE, completed_at |-> FALSE, error_message |-> "",
     youtube_playlist_id |-> ""]

Paths == {"transfer_playlist", "process_transfer", "script"}

InitTransfer ==
    /\ pc = "start"
    /\ \/ /\ run \in Paths
          /\ playlist_songs \in Playlists(MaxSongs)
       \/ /\ run = "transfer_playlist"
          /\ playlist_songs = LongPlaylist
    /\ IF run = "script" THEN job = [status |-> "none"]
       ELSE \E total_tracks \in 0..MaxSongs : job = NewJob(total_tracks)
    /\ song_results = <<>>
    /\ youtube_video_ids = <<>>
    /\ added_items = <<>>
    /\ position = 0
    /\ requests = <<>> /\ db_jobs = <<>>
    /\ IdleScore
    /\ IdleNormalize
    /\ IdleSearch
    /\ IdleAnalysis

\* dict.get('title', '')
get_title(result) == IF "title" \in DOMAIN result THEN result.title ELSE <<>>

\* result['artists'][0]['name'] if result.get('artists') else ''
get_artist(result) ==
    IF "artists" \in DOMAIN result /\ result.artists # <<>>
    THEN result.artists[1].name ELSE <<>>

\* transfer_playlist up to the loop, for a playlist of n songs: with no songs
\* it fails the job and raises
begin_transfer(transfer_job, n) ==
    IF n = 0
    THEN [transfer_job EXCEPT !.status = "failed",
                              !.error_message = "Error al transferir playlist",
                              !.completed_at = TRUE]
    ELSE [transfer_job EXCEPT !.total_songs = n,
                              !.status = "processing",
                              !.started_at = TRUE]

\* int((processed / total_songs) * 100)
progress_of(processed, total_songs) ==
    int_of_float(FloatMul(TrueDiv(processed, total_songs), FloatOfInt(100)))

\* the progress update that ends an iteration of the loop
update_progress(transfer_job, found) ==
    LET successful_transfers == transfer_job.successful_transfers + (IF found THEN 1 ELSE 0)
        failed_transfers == transfer_job.failed_transfers + (IF found THEN 0 ELSE 1)
        processed == successful_transfers + failed_transfers
    IN  [transfer_job EXCEPT !.processed_songs = processed,
                             !.successful_transfers = successful_transfers,
                             !.failed_transfers = failed_transfers,
                             !.progress_percentage =
                                 progress_of(processed, transfer_job.total_songs)]

\* the outermost "except Exception" of transfer_playlist
fail_transfer(transfer_job) ==
    [transfer_job EXCEPT !.status = "failed",
                         !.error_message = "Error al transferir playlist",
                         !.completed_at = TRUE]

\* "Finalizar transferencia": the status after the loop
final_status(transfer_job) ==
    IF transfer_job.failed_transfers = 0 THEN "completed"
    ELSE IF transfer_job.successful_transfers > 0 THEN "partial"
    ELSE "failed"

\* transfer_playlist after the loop
finish_transfer(transfer_job) ==
    [transfer_job EXCEPT
        !.youtube_playlist_id =
            IF transfer_job.successful_transfers > 0 THEN "PLsim" ELSE @,
        !.status = final_status(transfer_job),
        !.error_message =
            IF final_status(transfer_job) = "failed"
            THEN "No se pudo transferir ninguna cancion" ELSE @,
        !.completed_at = TRUE]

\* the song at position i has a SongTransferResult of this job already:
\* SongTransferResult is unique in (transfer_job, song), so objects.create
\* raises IntegrityError, and raises again in the handler of the iteration
has_result(songs, i) == \E j \in 1..(i - 1) : songs[j] = songs[i]

\* transfer_playlist up to the loop; when it raises, start_transfer marks the
\* job failed again
TransferPlaylistBegin ==
    /\ run = "transfer_playlist"
    /\ pc = "start"
    /\ job' = begin_transfer(job, Len(playlist_songs))
    /\ pc' = IF Len(playlist_songs) = 0 THEN "done" ELSE "loop"
    /\ UNCHANGED <<run, playlist_songs, song_results, youtube_video_ids, added_items,
                   position, jobsVars,
                   scoreVars, normVars, searchVars, analysisVars>>

\* one iteration of "for ps in playlist_songs", progress update included.  For
\* a song that is in the playlist a second time both objects.create calls
\* raise, and the exception leaves the loop for the outermost handler.
TransferPlaylistSong ==
    /\ run = "transfer_playlist"
    /\ pc = "loop"
    /\ position < Len(playlist_songs)
    /\ \E results \in SearchOutcomes(MaxResults) :
          LET song == playlist_songs[position + 1]
              youtube_result == search_track(song.name, song.artist, results).ret
              found == youtube_result # NoneResult
              confidence == calculate_similarity_score(song.name, song.artist,
                                get_title(youtube_result), get_artist(youtube_result))
          IN  IF has_result(playlist_songs, position + 1)
              THEN /\ job' = fail_transfer(job)
                   /\ pc' = "done"
                   /\ UNCHANGED <<song_results, youtube_video_ids, position>>
              ELSE /\ song_results' = Append(song_results,
                         IF found
                         THEN [song |-> song, transfer_status |-> "success",
                               youtube_video_id |-> youtube_result.videoId,
                               match_confidence |-> confidence]
                         ELSE [song |-> song, transfer_status |-> "failed",
                               youtube_video_id |-> 0,
                               match_confidence |-> Zero])
                   /\ youtube_video_ids' =
                         IF found THEN Append(youtube_video_ids, youtube_result.videoId)
                         ELSE youtube_video_ids
                   /\ job' = update_progress(job, found)
                   /\ position' = position + 1
                   /\ pc' = pc
    /\ UNCHANGED <<run, playlist_songs, added_items, jobsVars,
                   scoreVars, normVars, searchVars, analysisVars>>

\* transfer_playlist after the loop
TransferPlaylistFinish ==
    /\ run = "transfer_playlist"
    /\ pc = "loop"
    /\ position = Len(playlist_songs)
    /\ job' = finish_transfer(job)
    /\ pc' = "done"
    /\ UNCHANGED <<run, playlist_songs, song_results, youtube_video_ids, added_items,
                   position, jobsVars,
                   scoreVars, normVars, searchVars, analysisVars>>

\* _process_transfer up to job.start_processing()
ProcessTransferStart ==
    /\ run = "process_transfer"
    /\ pc = "start"
    /\ job' = [job EXCEPT !.status = "processing", !.started_at = TRUE]
    /\ pc' = "loop"
    /\ UNCHANGED <<run, playlist_songs, song_results, youtube_video_ids, added_items,
                   position, jobsVars,
                   scoreVars, normVars, searchVars, analysisVars>>

\* the rest of _process_transfer.  Without a YTMusic client it raises.  Its
\* first _transfer_song raises AttributeError before it searches: Song has a
\* name and no title, and SongTransferResult has no FAILED.  Every exception
\* ends in the "except" that marks the job failed.
ProcessTransferRun ==
    /\ run = "process_transfer"
    /\ pc = "loop"
    /\ \E ytmusic_available \in BOOLEAN :
          IF ~ytmusic_available
          THEN job' = [job EXCEPT !.status = "failed",
                                  !.error_message = "YouTube Music API no esta disponible",
                                  !.completed_at = TRUE]
          ELSE IF Len(playlist_songs) = 0
          THEN job' = [job EXCEPT !.youtube_playlist_id = "PL",
                                  !.status = IF job.failed_transfers = 0
                                             THEN "completed" ELSE "partial",
                                  !.completed_at = TRUE]
          ELSE job' = [job EXCEPT !.youtube_playlist_id = "PL",
                                  !.status = "failed",
                                  !.error_message = "AttributeError",
                                  !.completed_at = TRUE]
    /\ pc' = "done"
    /\ UNCHANGED <<run, playlist_songs, song_results, youtube_video_ids, added_items,
                   position, jobsVars,
                   scoreVars, normVars, searchVars, analysisVars>>

\* titulo.lower() in result.get('title', '').lower()
contains(needle, hay) ==
    \E k \in 0..(Len(hay) - Len(needle)) : SubSeq(hay, k + 1, k + Len(needle)) = needle

\* the first result whose title contains the song's title, 0 when there is none
RECURSIVE first_title_match(_, _, _)
first_title_match(titulo, resultados_busqueda, i) ==
    IF i > Len(resultados_busqueda) THEN 0
    ELSE IF contains(lower(titulo), lower(get_title(resultados_busqueda[i])))
         THEN resultados_busqueda[i].videoId
         ELSE first_title_match(titulo, resultados_busqueda, i + 1)

\* id_video_seleccionado of the script, for a non-empty list of results:
\* "if not id_video_seleccionado: ... = resultados_busqueda[0]['videoId']"
select_video(titulo, resultados_busqueda) ==
    LET id_video_seleccionado == first_title_match(titulo, resultados_busqueda, 1)
    IN  IF id_video_seleccionado = 0 THEN resultados_busqueda[1].videoId
        ELSE id_video_seleccionado

\* the script up to the loop over the rows of the CSV file
ScriptStart ==
    /\ run = "script"
    /\ pc = "start"
    /\ pc' = "loop"
    /\ UNCHANGED <<run, playlist_songs, job, song_results, youtube_video_ids,
                   added_items, position, jobsVars,
                   scoreVars, normVars, searchVars, analysisVars>>

\* one row of the CSV file: search, select, add_playlist_items.  HTTP 409 is
\* ignored, any other error ends the script.
ScriptRow ==
    /\ run = "script"
    /\ pc = "loop"
    /\ position < Len(playlist_songs)
    /\ \E resultados_busqueda \in SearchOutcomes(MaxResults),
          outcome \in {"added", "HTTP 409", "error"} :
          LET row == playlist_songs[position + 1]
          IN  IF resultados_busqueda = <<>>
              THEN /\ added_items' = added_items
                   /\ pc' = pc
              ELSE /\ added_items' =
                        IF outcome = "added"
                        THEN Append(added_items,
                                    [song |-> row,
                                     videoId |-> select_video(row.name, resultados_busqueda)])
                        ELSE added_items
                   /\ pc' = IF outcome = "error" THEN "done" ELSE pc
    /\ position' = position + 1
    /\ UNCHANGED <<run, playlist_songs, job, song_results, youtube_video_ids,
                   jobsVars,
                   scoreVars, normVars, searchVars, analysisVars>>

\* the script after the last row
ScriptEnd ==
    /\ run = "script"
    /\ pc = "loop"
    /\ position = Len(playlist_songs)
    /\ pc' = "done"
    /\ UNCHANGED <<run, playlist_songs, job, song_results, youtube_video_ids,
                   added_items, position, jobsVars,
                   scoreVars, normVars, searchVars, analysisVars>>

Next ==
    \/ TransferPlaylistBegin
    \/ TransferPlaylistSong
    \/ TransferPlaylistFinish
    \/ ProcessTransferStart
    \/ ProcessTransferRun
    \/ ScriptStart
    \/ ScriptRow
    \/ ScriptEnd

Spec == InitTransfer /\ [][Next]_vars

----------------------------------------------------------------------------
(* TransferJobViewSet: concurrent start_transfer requests for one playlist, *)
(* cancel_transfer, and the update the ModelViewSet gives                   *)
(*                                                                          *)
(* start_transfer runs inside one transaction.atomic() block: the job it    *)
(* creates and every save() of transfer_playlist stay in its transaction,   *)
(* unseen by the other requests, until the block is left.  The job of       *)
(* request r is row r.                                                      *)

Requests == 1..MaxRequests

NoJob == [status |-> "none"]

Statuses == {"pending", "processing", "completed", "failed", "partial"}

\* playlists without a song, with one, with one song twice and with two
JobPlaylists ==
    {<<>>,
     <<[name |-> <<"A">>, artist |-> <<"a">>]>>,
     <<[name |-> <<"A">>, artist |-> <<"a">>], [name |-> <<"A">>, artist |-> <<"a">>]>>,
     <<[name |-> <<"A">>, artist |-> <<"a">>], [name |-> <<"b", "!">>, artist |-> <<"b">>]>>}

\* a request that has not entered the view
NewRequest == [pc |-> "begin", transfer_job |-> NoJob, position |-> 0, status_code |-> 0]

InitJobs ==
    /\ pc = "start"
    /\ run = "start_transfer"
    /\ playlist_songs \in JobPlaylists
    /\ requests = [r \in Requests |-> NewRequest]
    /\ db_jobs = [r \in Requests |-> NoJob]
    /\ job = NoJob
    /\ song_results = <<>> /\ youtube_video_ids = <<>> /\ added_items = <<>>
    /\ position = 0
    /\ IdleScore
    /\ IdleNormalize
    /\ IdleSearch
    /\ IdleAnalysis

\* the request has written in its transaction and not left it
InTransaction(r) == requests[r].pc \in {"created", "loop"}

\* start_transfer up to "if existing_job": the query sees the committed rows
StartTransferCheck(r) ==
    /\ requests[r].pc = "begin"
    /\ LET existing_job == \E j \in Requests : db_jobs[j].status \in {"pending", "processing"}
       IN  requests' = [requests EXCEPT ![r] =
                IF existing_job THEN [@ EXCEPT !.pc = "done", !.status_code = 400]
                ELSE [@ EXCEPT !.pc = "checked"]]
    /\ UNCHANGED <<pc, run, playlist_songs, job, song_results, youtube_video_ids,
                   added_items, position, db_jobs, scoreVars, normVars, searchVars,
                   analysisVars>>

\* TransferJob.objects.create.  While another transaction holds writes the
\* database either takes the row (row versions) or refuses it (one writer at
\* a time); the view answers an exception with 500.
StartTransferCreate(r) ==
    /\ requests[r].pc = "checked"
    /\ \E refused \in {FALSE} \cup {b \in {TRUE} : \E o \in Requests \ {r} : InTransaction(o)} :
          requests' = [requests EXCEPT ![r] =
              IF refused THEN [@ EXCEPT !.pc = "done", !.status_code = 500]
              ELSE [@ EXCEPT !.pc = "created",
                             !.transfer_job = NewJob(Len(playlist_songs))]]
    /\ UNCHANGED <<pc, run, playlist_songs, job, song_results, youtube_video_ids,
                   added_items, position, db_jobs, scoreVars, normVars, searchVars,
                   analysisVars>>

\* transfer_playlist up to the loop.  With no songs it raises: the view marks
\* the job failed, answers 500 and leaves the block, which commits.
StartTransferBegin(r) ==
    /\ requests[r].pc = "created"
    /\ \E begun \in {begin_transfer(requests[r].transfer_job, Len(playlist_songs))} :
          IF Len(playlist_songs) = 0
          THEN /\ requests' = [requests EXCEPT ![r] =
                      [@ EXCEPT !.pc = "done", !.transfer_job = begun, !.status_code = 500]]
               /\ db_jobs' = [db_jobs EXCEPT ![r] = begun]
          ELSE /\ requests' = [requests EXCEPT ![r] =
                      [@ EXCEPT !.pc = "loop", !.transfer_job = begun]]
               /\ db_jobs' = db_jobs
    /\ UNCHANGED <<pc, run, playlist_songs, job, song_results, youtube_video_ids,
                   added_items, position, scoreVars, normVars, searchVars, analysisVars>>

\* one iteration of the loop of transfer_playlist, for a search that brings
\* back one video or none.  For a song that is in the playlist a second time
\* objects.create raises, every later query of the
\* transaction raises too, the exception leaves the atomic block, which rolls
\* back, and the view answers 500.
StartTransferSong(r) ==
    /\ requests[r].pc = "loop"
    /\ requests[r].position < Len(playlist_songs)
    /\ \E song \in {playlist_songs[requests[r].position + 1]} :
          \E found \in {search_track(song.name, song.artist, results).ret # NoneResult :
                            results \in SearchOutcomes(1)} :
              requests' = [requests EXCEPT ![r] =
                  IF has_result(playlist_songs, requests[r].position + 1)
                  THEN [@ EXCEPT !.pc = "done",
                                 !.transfer_job = fail_transfer(@),
                                 !.status_code = 500]
                  ELSE [@ EXCEPT !.transfer_job = update_progress(@, found),
                                 !.position = @ + 1]]
    /\ UNCHANGED <<pc, run, playlist_songs, job, song_results, youtube_video_ids,
                   added_items, position, db_jobs, scoreVars, normVars, searchVars,
                   analysisVars>>

\* transfer_playlist after the loop, the 201 answer and the commit
StartTransferFinish(r) ==
    /\ requests[r].pc = "loop"
    /\ requests[r].position = Len(playlist_songs)
    /\ \E finished \in {finish_transfer(requests[r].transfer_job)} :
          /\ requests' = [requests EXCEPT ![r] =
                 [@ EXCEPT !.pc = "done", !.transfer_job = finished, !.status_code = 201]]
          /\ db_jobs' = [db_jobs EXCEPT ![r] = finished]
    /\ UNCHANGED <<pc, run, playlist_songs, job, song_results, youtube_video_ids,
                   added_items, position, scoreVars, normVars, searchVars, analysisVars>>

\* cancel_transfer for a job the request can see
CancelTransfer(j) ==
    /\ db_jobs[j] # NoJob
    /\ db_jobs' = [db_jobs EXCEPT ![j] =
           IF @.status \in {"completed", "failed"} THEN @
           ELSE [@ EXCEPT !.status = "failed",
                          !.error_message = "Cancelado por el usuario"]]
    /\ UNCHANGED <<pc, run, playlist_songs, job, song_results, youtube_video_ids,
                   added_items, position, requests, scoreVars, normVars, searchVars,
                   analysisVars>>

\* PUT or PATCH on a job the request can see: TransferJobSerializer has
\* status among its fields and not among the read-only ones
UpdateJob(j, status) ==
    /\ db_jobs[j] # NoJob
    /\ db_jobs' = [db_jobs EXCEPT ![j] = [@ EXCEPT !.status = status]]
    /\ UNCHANGED <<pc, run, playlist_songs, job, song_results, youtube_video_ids,
                   added_items, position, requests, scoreVars, normVars, searchVars,
                   analysisVars>>

NextJobs ==
    \/ \E r \in Requests : StartTransferCheck(r)
    \/ \E r \in Requests : StartTransferCreate(r)
    \/ \E r \in Requests : StartTransferBegin(r)
    \/ \E r \in Requests : StartTransferSong(r)
    \/ \E r \in Requests : StartTransferFinish(r)
    \/ \E j \in Requests : CancelTransfer(j)
    \/ \E j \in Requests, status \in Statuses : UpdateJob(j, status)

SpecJobs == InitJobs /\ [][NextJobs]_vars

----------------------------------------------------------------------------
(* MusicAnalysisService.get_unified_stats, _get_platform_stats and          *)
(* _combine_top_data                                                        *)
(*                                                                          *)
(* A connection is [platform, stats]: stats is the UserListeningStats row   *)
(* the two look-ups find for it, or NoStats.  A row is a record of its      *)
(* columns; a top_* column that holds JSON null lacks its field.  An entry  *)
(* of a top_* list is a dict (a record that may lack keys) or NotADict.     *)
(* Values returned by round(x, 1) are kept as their number of tenths.       *)

\* .first() when no row matches
NoStats == [none |-> TRUE]

\* an entry of a top_* list that has no .get
NotADict == [notdict |-> TRUE]

IsDict(entry) == "notdict" \notin DOMAIN entry

\* dict.get(key, default)
get(d, key, default) == IF key \in DOMAIN d THEN d[key] ELSE default

\* str(v) inside an f-string
str(v) == IF v = None THEN <<"N", "o", "n", "e">> ELSE v

\* a plausible slip: "counter[key] = n", which keeps the last contribution only
counter_add_last(counter, key, n) ==
    IF \E i \in 1..Len(counter) : counter[i].key = key
    THEN [i \in 1..Len(counter) |->
            IF counter[i].key = key THEN [counter[i] EXCEPT !.count = n] ELSE counter[i]]
    ELSE Append(counter, [key |-> key, count |-> n])

\* counter[key] += n on a Counter, kept as its items in insertion order
counter_add(counter, key, n) ==
    IF \E i \in 1..Len(counter) : counter[i].key = key
    THEN [i \in 1..Len(counter) |->
            IF counter[i].key = key THEN [counter[i] EXCEPT !.count = @ + n] ELSE counter[i]]
    ELSE Append(counter, [key |-> key, count |-> n])

\* a plausible slip: of two items of equal count the later one comes first
comes_before_last(items, j, i) ==
    items[j].count > items[i].count \/ (items[j].count = items[i].count /\ j > i)

\* item j comes before item i in sorted(items, key=itemgetter(1), reverse=True):
\* the sort is stable, so items of equal count keep their order
comes_before(items, j, i) ==
    items[j].count > items[i].count \/ (items[j].count = items[i].count /\ j < i)

sorted_by_count(items) ==
    LET before == [i \in 1..Len(items) |->
                     Cardinality({j \in 1..Len(items) : comes_before(items, j, i)})]
    IN  [p \in 1..Len(items) |-> items[CHOOSE i \in 1..Len(items) : before[i] = p - 1]]

\* Counter.most_common(n)
most_common(counter, n) ==
    LET s == sorted_by_count(counter)
    IN  SubSeq(s, 1, IF Len(s) < n THEN Len(s) ELSE n)

\* the loop over stats.top_artists, and the same loop over stats.top_genres,
\* from entry i on: state is the counter and whether an exception has ended
\* the loop
RECURSIVE merge_names(_, _, _)
merge_names(state, entries, i) ==
    IF state.raised \/ i > Len(entries) THEN state
    ELSE IF ~IsDict(entries[i]) THEN [state EXCEPT !.raised = TRUE]
    ELSE LET name == get(entries[i], "name", None)
             minutes == get(entries[i], "minutes", 0)
         IN  merge_names(IF name # None /\ name # <<>>
                         THEN [state EXCEPT !.counter = counter_add(@, name, minutes)]
                         ELSE state,
                         entries, i + 1)

\* the loop over stats.top_tracks
RECURSIVE merge_tracks(_, _, _)
merge_tracks(state, entries, i) ==
    IF state.raised \/ i > Len(entries) THEN state
    ELSE IF ~IsDict(entries[i]) THEN [state EXCEPT !.raised = TRUE]
    ELSE LET track_key == str(get(entries[i], "name", None)) \o <<" ", "-", " ">>
                          \o str(get(entries[i], "artist", None))
             minutes == get(entries[i], "minutes", 0)
         IN  merge_tracks([state EXCEPT !.counter = counter_add(@, track_key, minutes)],
                          entries, i + 1)

\* a loop starts with no exception raised
loop_start(counter) == [counter |-> counter, raised |-> FALSE]

\* the body of "for connection in connections" in _combine_top_data: an
\* exception (iterating None, .get on a non-dict) is logged and the loop goes
\* on with the next connection, keeping what the counters hold
combine_connection(all, connection) ==
    LET stats == connection.stats
    IN  IF stats = NoStats \/ "top_artists" \notin DOMAIN stats THEN all
        ELSE LET a == merge_names(loop_start(all.artists), stats.top_artists, 1)
             IN  IF a.raised \/ "top_genres" \notin DOMAIN stats
                 THEN [all EXCEPT !.artists = a.counter]
                 ELSE LET g == merge_names(loop_start(all.genres), stats.top_genres, 1)
                      IN  IF g.raised \/ "top_tracks" \notin DOMAIN stats
                          THEN [all EXCEPT !.artists = a.counter, !.genres = g.counter]
                          ELSE [artists |-> a.counter, genres |-> g.counter,
                                tracks |-> merge_tracks(loop_start(all.tracks), stats.top_tracks, 1).counter]

RECURSIVE combine_loop(_, _, _)
combine_loop(all, conns, i) ==
    IF i > Len(conns) THEN all
    ELSE combine_loop(combine_connection(all, conns[i]), conns, i + 1)

ArtistsCap == 20
GenresCap == 15
TracksCap == 50

\* [{'name': name, 'minutes': minutes, 'rank': i+1} for i, (name, minutes) in enumerate(...)]
ranked_names(items) ==
    [i \in 1..Len(items) |-> [name |-> items[i].key, minutes |-> items[i].count, rank |-> i]]

ranked_tracks(items) ==
    [i \in 1..Len(items) |-> [track |-> items[i].key, minutes |-> items[i].count, rank |-> i]]

combine_top_data(conns) ==
    LET all == combine_loop([artists |-> <<>>, genres |-> <<>>, tracks |-> <<>>], conns, 1)
    IN  [top_artists |-> ranked_names(most_common(all.artists, ArtistsCap)),
         top_genres |-> ranked_names(most_common(all.genres, GenresCap)),
         top_tracks |-> ranked_tracks(most_common(all.tracks, TracksCap))]

\* the dict of the row's columns, or None
get_platform_stats(connection) == connection.stats

\* the loop "for connection in connections" of get_unified_stats
RECURSIVE platform_loop(_, _, _)
platform_loop(unified, conns, i) ==
    IF i > Len(conns) THEN unified
    ELSE LET platform_stats == get_platform_stats(conns[i])
         IN  platform_loop(
                 IF platform_stats # NoStats
                 THEN [unified EXCEPT
                         !.total_minutes = @ + platform_stats.total_minutes,
                         !.total_tracks = @ + platform_stats.total_tracks,
                         !.platform_breakdown =
                             Append(@, [platform |-> conns[i].platform.display_name,
                                        color |-> conns[i].platform.color,
                                        minutes |-> platform_stats.total_minutes,
                                        tracks |-> platform_stats.total_tracks,
                                        percentage |-> 0])]
                 ELSE unified,
                 conns, i + 1)

\* a plausible slip: the share is cut to one decimal, not rounded
percentage_truncated(minutes, total_minutes) == (minutes * 1000) \div total_minutes

\* round((platform['minutes'] / unified_stats['total_minutes']) * 100, 1)
percentage(minutes, total_minutes) ==
    round1(FloatMul(TrueDiv(minutes, total_minutes), FloatOfInt(100)))

get_unified_stats(conns) ==
    LET summed == platform_loop([total_minutes |-> 0, total_tracks |-> 0,
                                 platforms_connected |-> Len(conns),
                                 listening_patterns |-> {},
                                 platform_breakdown |-> <<>>], conns, 1)
        breakdown == IF summed.total_minutes > 0
                     THEN [i \in 1..Len(summed.platform_breakdown) |->
                             [summed.platform_breakdown[i] EXCEPT
                                !.percentage = percentage(summed.platform_breakdown[i].minutes,
                                                          summed.total_minutes)]]
                     ELSE summed.platform_breakdown
        top == combine_top_data(conns)
    IN  [total_minutes |-> summed.total_minutes,
         total_tracks |-> summed.total_tracks,
         platforms_connected |-> summed.platforms_connected,
         top_artists |-> top.top_artists,
         top_genres |-> top.top_genres,
         top_tracks |-> top.top_tracks,
         listening_patterns |-> summed.listening_patterns,
         platform_breakdown |-> breakdown]

----------------------------------------------------------------------------
(* get_unified_stats applied to the connections of one user *)

Drake == <<"D", "r", "a", "k", "e">>
Eno == <<"E", "n", "o">>
Pop == <<"P", "o", "p">>
Song == <<"S", "o", "n", "g">>

\* the entries a top_artists, top_genres or top_tracks list is built from
ArtistEntries ==
    {[name |-> n, minutes |-> m] : n \in {Drake, lower(Drake), Eno}, m \in {1, 2}}
    \cup {[minutes |-> 1], NotADict}

GenreEntries ==
    {[name |-> Pop, minutes |-> 1], [name |-> lower(Pop), minutes |-> 1], NotADict}

TrackEntries ==
    {[name |-> Song, artist |-> Eno, minutes |-> 1],
     [name |-> lower(Song), artist |-> Eno, minutes |-> 1],
     [name |-> Song, minutes |-> 2], NotADict}

\* the connection at position i of a user's connections is to this platform
PlatformList ==
    <<[display_name |-> "Spotify", color |-> "#1DB954"],
      [display_name |-> "YouTube Music", color |-> "#FF0000"],
      [display_name |-> "Apple Music", color |-> "#FA243C"],
      [display_name |-> "Deezer", color |-> "#A238FF"]>>

\* a UserListeningStats row
Row(minutes, tracks, artists, genres, top_tracks) ==
    [total_minutes |-> minutes, total_tracks |-> tracks, unique_artists |-> 0,
     top_artists |-> artists, top_genres |-> genres, top_tracks |-> top_tracks]

\* a row whose top_artists column holds null
NullArtistsRow ==
    [total_minutes |-> 1, total_tracks |-> 1, unique_artists |-> 0,
     top_genres |-> <<[name |-> Pop, minutes |-> 1]>>, top_tracks |-> <<>>]

\* a row with as many one-minute items as each list of the result can hold
FullRow ==
    Row(5, 5,
        [i \in 1..ArtistsCap |-> [name |-> FillerName(i), minutes |-> 1]],
        [i \in 1..GenresCap |-> [name |-> FillerName(i), minutes |-> 1]],
        [i \in 1..TracksCap |-> [name |-> FillerName(i), artist |-> Eno, minutes |-> 1]])

ExampleRows ==
    {NoStats,
     Row(3, 2, <<[name |-> Drake, minutes |-> 2], [name |-> Eno, minutes |-> 1]>>,
         <<[name |-> Pop, minutes |-> 1]>>,
         <<[name |-> Song, artist |-> Eno, minutes |-> 1]>>),
     Row(2, 1, <<[name |-> lower(Drake), minutes |-> 1]>>,
         <<[name |-> lower(Pop), minutes |-> 2]>>,
         <<[name |-> lower(Song), artist |-> Eno, minutes |-> 2]>>)}

\* k connections: the one at position j has the row given, the others the
\* rows of the function others
Connections(k, j, others, row) ==
    [i \in 1..k |-> [platform |-> PlatformList[i],
                     stats |-> IF i = j THEN row ELSE others[i]]]

\* the connection at position j has a row with one enumerated top_* list of
\* at most MaxItems entries, or a null top_artists
VariedConnections(k, j, others) ==
    \/ \E n \in 0..MaxItems : \E f \in [1..n -> ArtistEntries] :
           connections = Connections(k, j, others, Row(1, 1, f, <<>>, <<>>))
    \/ \E n \in 1..MaxItems : \E f \in [1..n -> GenreEntries] :
           connections = Connections(k, j, others, Row(1, 1, <<>>, f, <<>>))
    \/ \E n \in 1..MaxItems : \E f \in [1..n -> TrackEntries] :
           connections = Connections(k, j, others, Row(1, 1, <<>>, <<>>, f))
    \/ connections = Connections(k, j, others, NullArtistsRow)

\* no connection, or up to MaxPlatforms connections of which one is varied
\* and the others have rows of ExampleRows, or a varied connection before or
\* after one with FullRow
InitAggregate ==
    /\ pc = "call"
    /\ \/ connections = <<>>
       \/ \E k \in 1..MaxPlatforms : \E j \in 1..k : \E others \in [1..k -> ExampleRows] :
              VariedConnections(k, j, others)
       \/ \E j \in 1..2 : VariedConnections(2, j, <<FullRow, FullRow>>)
    /\ unified_stats = NoneResult
    /\ self_connections = <<>> /\ other_connections = <<>>
    /\ user1_stats = NoneResult /\ user2_stats = NoneResult
    /\ compatibility = NoneResult
    /\ IdleRequests
    /\ IdleScore
    /\ IdleNormalize
    /\ IdleSearch
    /\ IdleTransfer

\* rows that differ in total_minutes and total_tracks
BreakdownRows ==
    {NoStats} \cup
    {Row(m, t, <<[name |-> Eno, minutes |-> 1]>>, <<>>, <<>>) : m \in 0..MaxMinutes, t \in 0..1}

InitBreakdown ==
    /\ pc = "call"
    /\ \E k \in 0..MaxPlatforms : \E f \in [1..k -> BreakdownRows] :
           connections = [i \in 1..k |-> [platform |-> PlatformList[i], stats |-> f[i]]]
    /\ unified_stats = NoneResult
    /\ self_connections = <<>> /\ other_connections = <<>>
    /\ user1_stats = NoneResult /\ user2_stats = NoneResult
    /\ compatibility = NoneResult
    /\ IdleRequests
    /\ IdleScore
    /\ IdleNormalize
    /\ IdleSearch
    /\ IdleTransfer

GetUnifiedStats ==
    /\ pc = "call"
    /\ unified_stats' = get_unified_stats(connections)
    /\ pc' = "done"
    /\ UNCHANGED <<connections, self_connections, other_connections, user1_stats,
                   user2_stats, compatibility, requestVars, scoreVars, normVars,
                   searchVars, transferVars>>

NextAggregate == GetUnifiedStats

SpecAggregate == InitAggregate /\ [][NextAggregate]_vars

SpecBreakdown == InitBreakdown /\ [][NextAggregate]_vars

----------------------------------------------------------------------------
(* MusicAnalysisService.calculate_music_compatibility                       *)

\* {artist['name'].lower() for artist in artists}
lower_names(items) == {lower(items[i].name) : i \in 1..Len(items)}

\* a plausible slip: the overlap is divided by the size of the first set
calculate_artist_compatibility_first(artists1, artists2) ==
    IF artists1 = <<>> \/ artists2 = <<>> THEN FloatZero
    ELSE LET set1 == lower_names(artists1)
             set2 == lower_names(artists2)
             intersection == Cardinality(set1 \cap set2)
         IN  FloatMul(TrueDiv(intersection, Cardinality(set1)), FloatOfInt(100))

\* _calculate_artist_compatibility: the Jaccard index of the two name sets, times 100
calculate_artist_compatibility(artists1, artists2) ==
    IF artists1 = <<>> \/ artists2 = <<>> THEN FloatZero
    ELSE LET set1 == lower_names(artists1)
             set2 == lower_names(artists2)
             intersection == Cardinality(set1 \cap set2)
             union == Cardinality(set1 \cup set2)
         IN  IF union = 0 THEN FloatZero
             ELSE FloatMul(TrueDiv(intersection, union), FloatOfInt(100))

\* a plausible slip: two empty genre lists count as equal tastes
calculate_genre_compatibility_vacuous(genres1, genres2) ==
    IF genres1 = <<>> /\ genres2 = <<>> THEN FloatOfInt(100)
    ELSE IF genres1 = <<>> \/ genres2 = <<>> THEN FloatZero
    ELSE LET set1 == lower_names(genres1)
             set2 == lower_names(genres2)
             intersection == Cardinality(set1 \cap set2)
             union == Cardinality(set1 \cup set2)
         IN  IF union = 0 THEN FloatZero
             ELSE FloatMul(TrueDiv(intersection, union), FloatOfInt(100))

\* a plausible slip: the union is counted as the sum of the two sizes
calculate_genre_compatibility_sum(genres1, genres2) ==
    IF genres1 = <<>> \/ genres2 = <<>> THEN FloatZero
    ELSE LET set1 == lower_names(genres1)
             set2 == lower_names(genres2)
             intersection == Cardinality(set1 \cap set2)
             union == Cardinality(set1) + Cardinality(set2)
         IN  IF union = 0 THEN FloatZero
             ELSE FloatMul(TrueDiv(intersection, union), FloatOfInt(100))

\* _calculate_genre_compatibility: the same code on the genres
calculate_genre_compatibility(genres1, genres2) ==
    IF genres1 = <<>> \/ genres2 = <<>> THEN FloatZero
    ELSE LET set1 == lower_names(genres1)
             set2 == lower_names(genres2)
             intersection == Cardinality(set1 \cap set2)
             union == Cardinality(set1 \cup set2)
         IN  IF union = 0 THEN FloatZero
             ELSE FloatMul(TrueDiv(intersection, union), FloatOfInt(100))

\* {item[key].lower(): item for item in list}, kept as its items in insertion
\* order: a key stands where it came first and holds the last item that has it
items_by_name(list) ==
    LET key(i) == lower(list[i].name)
        indexes == [i \in 1..Len(list) |-> i]
        firsts == SelectSeq(indexes, LAMBDA i : \A j \in 1..(i - 1) : key(j) # key(i))
        last(k) == CHOOSE i \in 1..Len(list) :
                       key(i) = k /\ \A j \in (i + 1)..Len(list) : key(j) # k
    IN  [p \in 1..Len(firsts) |->
            [key |-> key(firsts[p]), value |-> list[last(key(firsts[p]))]]]

\* a plausible slip: the sort is ascending
shared_before_ascending(shared, j, i) ==
    LET sj == shared[j].user1_minutes + shared[j].user2_minutes
        si == shared[i].user1_minutes + shared[i].user2_minutes
    IN  sj < si \/ (sj = si /\ j < i)

\* entry j comes before entry i in
\* shared.sort(key=lambda x: x['user1_minutes'] + x['user2_minutes'], reverse=True)
shared_before(shared, j, i) ==
    LET sj == shared[j].user1_minutes + shared[j].user2_minutes
        si == shared[i].user1_minutes + shared[i].user2_minutes
    IN  sj > si \/ (sj = si /\ j < i)

\* a plausible slip: both weights are read from the first user's item
find_shared_items_first(list1, list2) ==
    LET items1 == items_by_name(list1)
        items2 == items_by_name(list2)
        common == SelectSeq(items1, LAMBDA e : \E j \in 1..Len(items2) : items2[j].key = e.key)
        shared == [i \in 1..Len(common) |->
                     [name |-> common[i].value.name,
                      user1_minutes |-> get(common[i].value, "minutes", 0),
                      user2_minutes |-> get(common[i].value, "minutes", 0)]]
        before == [i \in 1..Len(shared) |->
                     Cardinality({j \in 1..Len(shared) : shared_before(shared, j, i)})]
    IN  [p \in 1..Len(shared) |-> shared[CHOOSE i \in 1..Len(shared) : before[i] = p - 1]]

\* _find_shared_items(list1, list2, 'name')
find_shared_items(list1, list2) ==
    LET items1 == items_by_name(list1)
        items2 == items_by_name(list2)
        common == SelectSeq(items1, LAMBDA e : \E j \in 1..Len(items2) : items2[j].key = e.key)
        other(k) == items2[CHOOSE j \in 1..Len(items2) : items2[j].key = k].value
        shared == [i \in 1..Len(common) |->
                     [name |-> common[i].value.name,
                      user1_minutes |-> get(common[i].value, "minutes", 0),
                      user2_minutes |-> get(other(common[i].key), "minutes", 0)]]
        before == [i \in 1..Len(shared) |->
                     Cardinality({j \in 1..Len(shared) : shared_before(shared, j, i)})]
    IN  [p \in 1..Len(shared) |-> shared[CHOOSE i \in 1..Len(shared) : before[i] = p - 1]]

\* _get_compatibility_level, without the emoji of each level
get_compatibility_level(score) ==
    IF FloatGE(score, 80) THEN [level |-> "Gemelos Musicales", color |-> "#FF6B6B"]
    ELSE IF FloatGE(score, 65) THEN [level |-> "Muy Compatible", color |-> "#4ECDC4"]
    ELSE IF FloatGE(score, 50) THEN [level |-> "Compatible", color |-> "#45B7D1"]
    ELSE IF FloatGE(score, 35) THEN [level |-> "Algo en Común", color |-> "#F9CA24"]
    ELSE IF FloatGE(score, 20) THEN [level |-> "Diferente Onda", color |-> "#E17055"]
    ELSE [level |-> "Mundos Aparte", color |-> "#636E72"]

\* shared[:10]
first10(shared) == SubSeq(shared, 1, IF Len(shared) < 10 THEN Len(shared) ELSE 10)

\* Each local variable of calculate_music_compatibility is bound to its value
\* once, where the code assigns it.

\* the two profiles and the dict calculate_music_compatibility returns
compatibility_result(stats1, stats2, artist_compatibility, genre_compatibility, overall_compatibility) ==
    [user1_stats |-> stats1,
     user2_stats |-> stats2,
     result |->
        [overall_compatibility |-> round1(overall_compatibility),
         artist_compatibility |-> round1(artist_compatibility),
         genre_compatibility |-> round1(genre_compatibility),
         shared_artists |->
             first10(find_shared_items(stats1.top_artists, stats2.top_artists)),
         shared_genres |->
             first10(find_shared_items(stats1.top_genres, stats2.top_genres)),
         compatibility_level |-> get_compatibility_level(overall_compatibility)]]

\* overall_compatibility = (artist_compatibility * 0.6) + (genre_compatibility * 0.4)
weighted_compatibility(stats1, stats2, artist_compatibility, genre_compatibility) ==
    CHOOSE returned \in
        {compatibility_result(stats1, stats2, artist_compatibility,
                              genre_compatibility, overall_compatibility) :
            overall_compatibility \in
                {FloatAdd(FloatMul(artist_compatibility, Float06),
                          FloatMul(genre_compatibility, Float04))}} : TRUE

\* the two component scores of the profiles
profile_compatibility(stats1, stats2) ==
    CHOOSE returned \in
        {weighted_compatibility(stats1, stats2, artist_compatibility,
                                genre_compatibility) :
            artist_compatibility \in
                {calculate_artist_compatibility(stats1.top_artists, stats2.top_artists)},
            genre_compatibility \in
                {calculate_genre_compatibility(stats1.top_genres, stats2.top_genres)}} : TRUE

\* calculate_music_compatibility; the profiles get_unified_stats builds give
\* no exception here
calculate_music_compatibility(self_conns, other_conns) ==
    CHOOSE returned \in
        {profile_compatibility(stats1, stats2) :
            stats1 \in {get_unified_stats(self_conns)},
            stats2 \in {get_unified_stats(other_conns)}} : TRUE

----------------------------------------------------------------------------
(* calculate_music_compatibility applied to the connections of two users *)

Rock == <<"R", "o", "c", "k">>
DaftPunk == <<"D", "a", "f", "t", " ", "P", "u", "n", "k">>
KanyeWest == <<"K", "a", "n", "y", "e", " ", "W", "e", "s", "t">>

\* the entries an enumerated top_artists or top_genres list is built from
SharedEntries ==
    {[name |-> Drake, minutes |-> 2], [name |-> lower(Drake), minutes |-> 1],
     [name |-> Eno, minutes |-> 1]}

\* the lists the two users have where the other kind of list is enumerated
FixedPairs ==
    {<<<<>>, <<>>>>,
     <<<<[name |-> Pop, minutes |-> 1]>>, <<[name |-> Pop, minutes |-> 1]>>>>,
     <<<<[name |-> Pop, minutes |-> 1]>>, <<[name |-> lower(Pop), minutes |-> 2]>>>>,
     <<<<[name |-> Pop, minutes |-> 1]>>, <<[name |-> Rock, minutes |-> 1]>>>>}

\* the names lo..hi of the pool; the weights rise with the name for one user
\* and fall for the other
RangeItems(lo, hi, rising) ==
    [i \in 1..(hi - lo + 1) |->
        [name |-> FillerName(lo + i - 1),
         minutes |-> IF rising THEN lo + i - 1 ELSE MaxNames + 1 - (lo + i - 1)]]

\* FullRow with every list in the opposite order
FullRowReversed ==
    Row(5, 5, Reverse(FullRow.top_artists), Reverse(FullRow.top_genres),
        Reverse(FullRow.top_tracks))

\* a row with more artists than a result keeps, each with a weight of its own
GradedRow ==
    Row(5, 5, [i \in 1..(10 + MaxItems) |-> [name |-> FillerName(i), minutes |-> i]],
        <<>>, <<>>)

\* the users of the example: A listens to Daft Punk (300) and Drake (200),
\* B to Daft Punk (150) and Kanye West (100)
ExampleRowA ==
    Row(500, 2, <<[name |-> DaftPunk, minutes |-> 300], [name |-> Drake, minutes |-> 200]>>,
        <<>>, <<>>)
ExampleRowB ==
    Row(250, 2, <<[name |-> DaftPunk, minutes |-> 150], [name |-> KanyeWest, minutes |-> 100]>>,
        <<>>, <<>>)

\* a user with one connection that has the row given
OneConnection(row) == <<[platform |-> PlatformList[1], stats |-> row]>>

\* each user has one connection; the top_artists (or the top_genres) of both
\* are enumerated lists of at most MaxItems entries, or ranges of a pool of
\* MaxNames names, and the other lists are a pair of FixedPairs; or the rows
\* are full rows, or those of the example, or a user has no connection
InitCompatibility ==
    /\ pc = "call"
    /\ \/ \E n1, n2 \in 0..MaxItems :
          \E f1 \in [1..n1 -> SharedEntries] : \E f2 \in [1..n2 -> SharedEntries] :
          \E g \in FixedPairs :
              \/ /\ self_connections = OneConnection(Row(1, 1, f1, g[1], <<>>))
                 /\ other_connections = OneConnection(Row(1, 1, f2, g[2], <<>>))
              \/ /\ self_connections = OneConnection(Row(1, 1, g[1], f1, <<>>))
                 /\ other_connections = OneConnection(Row(1, 1, g[2], f2, <<>>))
       \/ \E a \in 0..MaxNames : \E s \in 1..MaxNames : \E t \in s..MaxNames :
          \E g \in FixedPairs :
              \/ /\ self_connections = OneConnection(Row(1, 1, RangeItems(1, a, TRUE), g[1], <<>>))
                 /\ other_connections = OneConnection(Row(1, 1, RangeItems(s, t, FALSE), g[2], <<>>))
              \/ /\ self_connections = OneConnection(Row(1, 1, g[1], RangeItems(1, a, TRUE), <<>>))
                 /\ other_connections = OneConnection(Row(1, 1, g[2], RangeItems(s, t, FALSE), <<>>))
       \/ /\ self_connections = OneConnection(FullRow)
          /\ other_connections \in {OneConnection(FullRow), OneConnection(FullRowReversed),
                                    OneConnection(GradedRow)}
       \/ /\ self_connections = OneConnection(ExampleRowA)
          /\ other_connections = OneConnection(ExampleRowB)
       \/ /\ self_connections = <<>>
          /\ other_connections \in {<<>>, OneConnection(ExampleRowB)}
    /\ user1_stats = NoneResult /\ user2_stats = NoneResult
    /\ compatibility = NoneResult
    /\ connections = <<>> /\ unified_stats = NoneResult
    /\ IdleRequests
    /\ IdleScore
    /\ IdleNormalize
    /\ IdleSearch
    /\ IdleTransfer

CalculateMusicCompatibility ==
    /\ pc = "call"
    /\ \E returned \in {calculate_music_compatibility(self_connections, other_connections)} :
        /\ user1_stats' = returned.user1_stats
        /\ user2_stats' = returned.user2_stats
        /\ compatibility' = returned.result
    /\ pc' = "done"
    /\ UNCHANGED <<self_connections, other_connections, connections, unified_stats,
                   requestVars, scoreVars, normVars, searchVars, transferVars>>

NextCompatibility == CalculateMusicCompatibility

SpecCompatibility == InitCompatibility /\ [][NextCompatibility]_vars

----------------------------------------------------------------------------
(* The music_compatibility view (views.py)                                  *)

\* the connections a user of a request can have: none, one without a stats
\* row, or one with a row of at most MaxItems artists
UserData ==
    {<<>>, OneConnection(NoStats), OneConnection(ExampleRowA), OneConnection(ExampleRowB)}
    \cup UNION {{OneConnection(Row(1, 1, f, <<>>, <<>>)) : f \in [1..n -> SharedEntries]} :
                n \in 1..MaxItems}

\* whom the username of the request names
RequestTargets == {"nobody", "self", "other"}

InitCompatibilityView ==
    /\ pc = "call"
    /\ self_connections \in UserData
    /\ other_connections \in UserData
    /\ user1_stats = NoneResult /\ user2_stats = NoneResult
    /\ compatibility = NoneResult
    /\ connections = <<>> /\ unified_stats = NoneResult
    /\ IdleRequests
    /\ IdleScore
    /\ IdleNormalize
    /\ IdleSearch
    /\ IdleTransfer

\* the view from the lookup of the user to its Response; the names of the two
\* users in the body of the 200 response are left out
MusicCompatibilityView ==
    /\ pc = "call"
    /\ \E target \in RequestTargets :
          \/ /\ target = "nobody"
             /\ response' = [status |-> 404, error |-> "Usuario no encontrado"]
             /\ UNCHANGED <<user1_stats, user2_stats, compatibility>>
          \/ /\ target = "self"
             /\ response' = [status |-> 400,
                             error |-> "No puedes calcular compatibilidad contigo mismo"]
             /\ UNCHANGED <<user1_stats, user2_stats, compatibility>>
          \/ /\ target = "other"
             /\ \E returned \in {calculate_music_compatibility(self_connections,
                                                               other_connections)} :
                  /\ user1_stats' = returned.user1_stats
                  /\ user2_stats' = returned.user2_stats
                  /\ compatibility' = returned.result
                  /\ response' =
                        IF returned.result = NoneResult
                        THEN [status |-> 400,
                              error |-> "No se pudo calcular la compatibilidad. Ambos usuarios deben tener datos musicales."]
                        ELSE [status |-> 200, compatibility |-> returned.result]
    /\ pc' = "done"
    /\ UNCHANGED <<self_connections, other_connections, connections, unified_stats,
                   friendships, limit, models_found, recommendations, scoreVars,
                   normVars, searchVars, transferVars>>

NextCompatibilityView == MusicCompatibilityView

SpecCompatibilityView == InitCompatibilityView /\ [][NextCompatibilityView]_vars

----------------------------------------------------------------------------
(* MusicAnalysisService.get_music_recommendations                           *)
(*                                                                          *)
(* A friendship holds what the code reads of the friend: the display_name,  *)
(* the connections, and the MusicCompatibility row kept for the pair (in    *)
(* either direction), NoCompatibility when there is none.  The overall      *)
(* score of a row is kept as its number of tenths.                          *)
(*                                                                          *)
(* _get_or_calculate_compatibility begins, outside its try, with            *)
(* "from .models import MusicCompatibility": inside transfer/services/ this *)
(* names the module transfer.services.models, which the sources at hand do  *)
(* not hold (the models are in transfer/models.py).  Where the module is    *)
(* not found the import raises at the first friendship and                  *)
(* get_music_recommendations returns [] from its except branch.             *)

\* .first() when no MusicCompatibility row matches
NoCompatibility == [none |-> TRUE]

\* _get_or_calculate_compatibility: the stored row when there is one, else a
\* new comparison
get_or_calculate_compatibility(self_conns, friend) ==
    IF friend.stored # NoCompatibility
    THEN [overall_compatibility |-> friend.stored.overall_compatibility,
          artist_compatibility |-> friend.stored.artist_compatibility,
          genre_compatibility |-> friend.stored.genre_compatibility,
          shared_artists |-> friend.stored.shared_artists,
          shared_genres |-> friend.stored.shared_genres]
    ELSE calculate_music_compatibility(self_conns, friend.connections).result

\* the loop over the friendships: the friends with a compatibility of 40 or more
compatible_friends_of(self_conns, friends) ==
    LET found == [i \in 1..Len(friends) |->
                    [friend |-> friends[i],
                     compatibility |-> get_or_calculate_compatibility(self_conns, friends[i])]]
    IN  SelectSeq(found, LAMBDA x : /\ x.compatibility # NoneResult
                                    /\ x.compatibility.overall_compatibility >= 400)

\* a plausible slip: the sort is ascending
friend_before_ascending(compatible, j, i) ==
    LET cj == compatible[j].compatibility.overall_compatibility
        ci == compatible[i].compatibility.overall_compatibility
    IN  cj < ci \/ (cj = ci /\ j < i)

\* entry j comes before entry i in
\* compatible_friends.sort(key=lambda x: x['compatibility']['overall_compatibility'], reverse=True)
friend_before(compatible, j, i) ==
    LET cj == compatible[j].compatibility.overall_compatibility
        ci == compatible[i].compatibility.overall_compatibility
    IN  cj > ci \/ (cj = ci /\ j < i)

sorted_friends(compatible) ==
    LET before == [i \in 1..Len(compatible) |->
                     Cardinality({j \in 1..Len(compatible) : friend_before(compatible, j, i)})]
    IN  [p \in 1..Len(compatible) |->
            compatible[CHOOSE i \in 1..Len(compatible) : before[i] = p - 1]]

\* list[:n], for any integer n
slice_to(list, n) ==
    LET stop == IF n >= 0 THEN (IF n < Len(list) THEN n ELSE Len(list))
                ELSE (IF Len(list) + n > 0 THEN Len(list) + n ELSE 0)
    IN  SubSeq(list, 1, stop)

\* a plausible slip: the artists the user has are compared with their case
is_new_artist_cased(user_artists, artist) ==
    artist.name \notin user_artists

\* artist['name'].lower() not in user_artists
is_new_artist(user_artists, artist) ==
    lower(artist.name) \notin user_artists

\* the recommendations one friend gives: the inner loop over the first 10
\* artists of the friend; the reason text, built from the display_name and the
\* score, is left out
friend_recommendations(user_artists, friend_data, friend_stats) ==
    LET offered == SelectSeq(slice_to(friend_stats.top_artists, 10),
                             LAMBDA artist : is_new_artist(user_artists, artist))
    IN  [i \in 1..Len(offered) |->
            [artist_name |-> offered[i].name,
             minutes |-> offered[i].minutes,
             recommended_by |-> friend_data.friend.display_name,
             compatibility_score |-> friend_data.compatibility.overall_compatibility]]

\* the outer loop over the friends from position i on
RECURSIVE all_recommendations(_, _, _)
all_recommendations(user_artists, top_friends, i) ==
    IF i > Len(top_friends) THEN <<>>
    ELSE CHOOSE recs \in
            {friend_recommendations(user_artists, top_friends[i], friend_stats)
                 \o all_recommendations(user_artists, top_friends, i + 1) :
                friend_stats \in {get_unified_stats(top_friends[i].friend.connections)}} : TRUE

\* a plausible slip: the last recommendation of an artist is the one kept
is_first_of_artist_last(recs, i) ==
    \A j \in (i + 1)..Len(recs) : lower(recs[j].artist_name) # lower(recs[i].artist_name)

\* rec['artist_name'].lower() not in seen, for the recommendation at position i
is_first_of_artist(recs, i) ==
    \A j \in 1..(i - 1) : lower(recs[j].artist_name) # lower(recs[i].artist_name)

\* the loop that removes the duplicates
unique_recommendations(recs) ==
    LET indexes == [i \in 1..Len(recs) |-> i]
        kept == SelectSeq(indexes, LAMBDA i : is_first_of_artist(recs, i))
    IN  [p \in 1..Len(kept) |-> recs[kept[p]]]

\* the recommendations of the friends chosen, for the artists the user has
recommendations_from(user_artists, top_friends, n) ==
    CHOOSE returned \in
        {slice_to(unique_recommendations(recs), n) :
            recs \in {all_recommendations(user_artists, top_friends, 1)}} : TRUE

\* get_music_recommendations; with the module found nothing raises on the data
\* the model holds
get_music_recommendations(self_conns, friends, n, found) ==
    IF friends # <<>> /\ ~found THEN <<>>
    ELSE
    CHOOSE returned \in
        {recommendations_from(lower_names(user_stats.top_artists),
                              slice_to(sorted_friends(compatible), 5), n) :
            compatible \in {compatible_friends_of(self_conns, friends)},
            user_stats \in {get_unified_stats(self_conns)}} : TRUE

----------------------------------------------------------------------------
(* get_music_recommendations applied to a user and the user's friends *)

\* display_name of the i-th friend
FriendName(i) == <<"u", Letters[i]>>

\* a stored MusicCompatibility row with the overall score given, in tenths
StoredRow(overall) ==
    [overall_compatibility |-> overall, artist_compatibility |-> 0,
     genre_compatibility |-> 0, shared_artists |-> <<>>, shared_genres |-> <<>>]

\* the connections of self.user: none, or one with Drake and Pop
SelfChoices ==
    {<<>>,
     OneConnection(Row(1, 1, <<[name |-> Drake, minutes |-> 2]>>,
                       <<[name |-> Pop, minutes |-> 1]>>, <<>>))}

\* the connections of a friend: none, or one with artists the user has in
\* part, in one case or the other
FriendConnections ==
    {<<>>,
     OneConnection(Row(1, 1, <<[name |-> Drake, minutes |-> 3], [name |-> Eno, minutes |-> 2],
                               [name |-> DaftPunk, minutes |-> 1]>>,
                       <<[name |-> Pop, minutes |-> 1]>>, <<>>)),
     OneConnection(Row(1, 1, <<[name |-> lower(Drake), minutes |-> 1],
                               [name |-> lower(Eno), minutes |-> 1],
                               [name |-> KanyeWest, minutes |-> 1]>>, <<>>, <<>>))}

\* the row stored for a friend: none, or one just below, at or well above 40.0
StoredChoices == {NoCompatibility, StoredRow(399), StoredRow(400), StoredRow(900)}

\* values of limit: the default 20 and small ones
Limits == {0, 1, 2, 20}

\* the artists lo..hi of the pool, the first the most listened to
FriendItems(lo, hi) ==
    [i \in 1..(hi - lo + 1) |-> [name |-> FillerName(lo + i - 1), minutes |-> hi - lo + 2 - i]]

\* a friend who listens to the artists lo..hi, with a stored row
RangeFriend(i, lo, hi, overall) ==
    [display_name |-> FriendName(i),
     connections |-> OneConnection(Row(1, 1, FriendItems(lo, hi), <<>>, <<>>)),
     stored |-> StoredRow(overall)]

\* up to MaxFriends friends with any of the connections and stored rows; or 6
\* friends, one more than the code keeps, with 11 artists each, one more than
\* the code reads; or 3 friends with 12 artists each, who together offer more
\* than the default limit
InitRecommend ==
    /\ pc = "call"
    /\ \/ /\ \E k \in 0..MaxFriends :
             \E c \in [1..k -> FriendConnections] : \E st \in [1..k -> StoredChoices] :
                friendships = [i \in 1..k |-> [display_name |-> FriendName(i),
                                               connections |-> c[i], stored |-> st[i]]]
          /\ self_connections \in SelfChoices
          /\ limit \in Limits
          /\ models_found \in BOOLEAN
       \/ /\ \E overall \in [1..6 -> {399, 450, 900}] :
                friendships = [i \in 1..6 |-> RangeFriend(i, i, i + 10, overall[i])]
          /\ self_connections = <<>>
          /\ limit \in {2, 20}
          /\ models_found = TRUE
       \/ /\ \E overall \in [1..3 -> {700, 800, 900}] :
                friendships = [i \in 1..3 |-> RangeFriend(i, 8 * i - 7, 8 * i + 4, overall[i])]
          /\ self_connections \in
                {<<>>, OneConnection(Row(1, 1, RangeItems(1, 2, TRUE), <<>>, <<>>))}
          /\ limit \in {1, 20}
          /\ models_found = TRUE
    /\ recommendations = <<>>
    /\ response = NoneResult
    /\ other_connections = <<>>
    /\ user1_stats = NoneResult /\ user2_stats = NoneResult
    /\ compatibility = NoneResult
    /\ connections = <<>> /\ unified_stats = NoneResult
    /\ IdleScore
    /\ IdleNormalize
    /\ IdleSearch
    /\ IdleTransfer

GetMusicRecommendations ==
    /\ pc = "call"
    /\ recommendations' =
           get_music_recommendations(self_connections, friendships, limit, models_found)
    /\ pc' = "done"
    /\ UNCHANGED <<self_connections, friendships, limit, models_found, response,
                   other_connections, user1_stats, user2_stats, compatibility,
                   connections, unified_stats, scoreVars, normVars, searchVars,
                   transferVars>>

NextRecommend == GetMusicRecommendations

SpecRecommend == InitRecommend /\ [][NextRecommend]_vars


----------------------------------------------------------------------------
(* Properties of the score *)

Returned == score_ret # NoRet

\* |X \cap Y| / max(|X|, |Y|, 1) as numerator and denominator
OverlapNum(x, y) == Cardinality(words(x) \cap words(y))
OverlapDen(x, y) == max3(Cardinality(words(x)), Cardinality(words(y)), 1)

\* C5: the score equals 0.4 * title_overlap + 0.6 * artist_overlap, each
\* overlap being |intersection| / max(|first set|, |second set|, 1) of the
\* normalized token sets, and it lies in [0, 1].
C5_ScoreFormula ==
    Returned =>
        LET tn == OverlapNum(track1, track2)
            td == OverlapDen(track1, track2)
            an == OverlapNum(artist1, artist2)
            ad == OverlapDen(artist1, artist2)
        IN  /\ score_ret.den > 0
            /\ score_ret.num * (5 * td * ad) = score_ret.den * (2 * tn * ad + 3 * an * td)
            /\ 0 <= score_ret.num
            /\ score_ret.num <= score_ret.den

\* a score with both terms partial: 0 < title_overlap < 1 and 0 < artist_overlap < 1
C5_Witness ==
    /\ Returned
    /\ 0 < OverlapNum(track1, track2)
    /\ OverlapNum(track1, track2) < OverlapDen(track1, track2)
    /\ 0 < OverlapNum(artist1, artist2)
    /\ OverlapNum(artist1, artist2) < OverlapDen(artist1, artist2)

SelfMatch == Returned /\ track2 = track1 /\ artist2 = artist1

\* C6 as stated: score(a, b, a, b) = 1.0 for all non-empty strings a and b,
\* strings of punctuation or whitespace included.
C6_SelfMatchNonEmptyStrings ==
    (SelfMatch /\ track1 # <<>> /\ artist1 # <<>>) => RatEQ(score_ret, One)

\* C6 amended: score(a, b, a, b) = 1.0 for all a and b that each normalize
\* to at least one token.
C6_SelfMatchNonEmptyTokens ==
    (SelfMatch /\ words(track1) # {} /\ words(artist1) # {}) => RatEQ(score_ret, One)

\* a self-match of a two-word title with punctuation and upper case
C6_Witness ==
    /\ SelfMatch
    /\ Cardinality(words(track1)) = 2
    /\ track1 # normalize(track1)
    /\ words(artist1) # {}
    /\ RatEQ(score_ret, One)

\* C7: swapping the two tracks does not change the score.
C7_ScoreSymmetric ==
    Returned => RatEQ(score_ret, calculate_similarity_score(track2, artist2, track1, artist1))

\* a positive score of two tracks whose titles have different numbers of words
C7_Witness ==
    /\ Returned
    /\ Cardinality(words(track1)) # Cardinality(words(track2))
    /\ OverlapNum(track1, track2) > 0
    /\ artist1 # artist2

\* C8 as stated: the score is 0 whenever both titles normalize to no tokens
\* or both artists normalize to no tokens.
C8_ZeroWhenTitlesOrArtistsEmpty ==
    (Returned /\ (\/ words(track1) = {} /\ words(track2) = {}
                  \/ words(artist1) = {} /\ words(artist2) = {}))
        => RatEQ(score_ret, Zero)

\* C8 amended: the score is 0 whenever one of the two tracks is empty (its
\* title and its artist both normalize to no tokens); a pair of empty titles
\* or of empty artists only brings its own term to 0.
C8_ZeroWhenTrackEmpty ==
    /\ (Returned /\ (\/ words(track1) = {} /\ words(artist1) = {}
                     \/ words(track2) = {} /\ words(artist2) = {}))
          => RatEQ(score_ret, Zero)
    /\ (Returned /\ words(track1) = {} /\ words(track2) = {})
          => RatEQ(score_ret, Rat(6 * OverlapNum(artist1, artist2),
                                  10 * OverlapDen(artist1, artist2)))
    /\ (Returned /\ words(artist1) = {} /\ words(artist2) = {})
          => RatEQ(score_ret, Rat(4 * OverlapNum(track1, track2),
                                  10 * OverlapDen(track1, track2)))

\* an empty track scored against a track with a title and an artist
C8_Witness ==
    /\ Returned
    /\ words(track1) = {} /\ words(artist1) = {}
    /\ track1 # <<>>
    /\ words(track2) # {} /\ words(artist2) # {}
    /\ RatEQ(score_ret, Zero)

----------------------------------------------------------------------------
(* Properties of search_track *)

\* the candidates of the matcher are the results that are songs
IsCandidate(i) == "resultType" \in DOMAIN search_results[i]
                  /\ search_results[i].resultType = "song"
CandidateIndexes == {i \in 1..Len(search_results) : IsCandidate(i)}

HasTitle(c) == "title" \in DOMAIN c /\ c.title # None
HasArtist(c) == "artists" \in DOMAIN c
                /\ (c.artists # <<>> => "name" \in DOMAIN c.artists[1]
                                        /\ c.artists[1].name # None)
WellFormed(i) == HasTitle(search_results[i]) /\ HasArtist(search_results[i])

\* title and artist of a candidate, a missing one read as the empty string
TitleOf(c) == IF HasTitle(c) THEN c.title ELSE <<>>
ArtistOf(c) == IF HasArtist(c) /\ c.artists # <<>> THEN c.artists[1].name ELSE <<>>

\* the similarity score of candidate i against the track searched for
ScoreOf(i) == calculate_similarity_score(track_name, artist_name,
                                         TitleOf(search_results[i]),
                                         ArtistOf(search_results[i]))

Searched == pc = "done" /\ search_results # <<>>

\* C1: search_track returns None exactly when every candidate scores <= 0.6.
C1_NoMatchIffAllAtMostThreshold ==
    Searched =>
        ((search_ret = NoneResult) <=>
            (\A i \in CandidateIndexes : RatLE(ScoreOf(i), Threshold)))

\* C1 on lists of well-formed candidates only
C1_OnWellFormedLists ==
    (Searched /\ \A i \in CandidateIndexes : WellFormed(i)) =>
        ((search_ret = NoneResult) <=>
            (\A i \in CandidateIndexes : RatLE(ScoreOf(i), Threshold)))

\* C2: a returned candidate has the maximum score of the list and is the
\* first of the candidates with that score.
C2_ReturnsFirstMaximum ==
    (Searched /\ search_ret # NoneResult) =>
        LET k == search_ret.videoId
        IN  /\ k \in CandidateIndexes
            /\ search_results[k] = search_ret
            /\ \A j \in CandidateIndexes : RatLE(ScoreOf(j), ScoreOf(k))
            /\ \A j \in CandidateIndexes : j < k => RatGT(ScoreOf(k), ScoreOf(j))

\* two candidates tie above the threshold and the first one is returned
C2_Witness ==
    /\ Searched
    /\ search_ret # NoneResult
    /\ search_ret.videoId = 1
    /\ 2 \in CandidateIndexes
    /\ RatEQ(ScoreOf(1), ScoreOf(2))
    /\ search_results[1].title # search_results[2].title

\* C3: a candidate with a missing title or artist does not end the search;
\* a well-formed candidate above the threshold is still returned.
C3_MissingFieldTolerated ==
    (Searched /\ \E i \in CandidateIndexes : ~WellFormed(i)) =>
        ((\E j \in CandidateIndexes : WellFormed(j) /\ RatGT(ScoreOf(j), Threshold))
            => search_ret # NoneResult)

IsExample == /\ track_name = BlindingLights
             /\ artist_name = TheWeeknd
             /\ search_results = ExampleResults

\* C9 as stated: on the Blinding Lights example the first candidate is
\* returned with confidence 1.0.
C9_ExampleConfidenceOne ==
    (pc = "done" /\ IsExample) =>
        /\ search_ret = ExampleResults[1]
        /\ RatEQ(best_score, One)

\* C9 amended: on the Blinding Lights example the first candidate is returned
\* with confidence 0.4 * 2/3 + 0.6 * 1.0 = 13/15 (about 0.867): the title
\* overlap is 2 shared tokens out of max(2, 3).
C9_ExampleConfidence ==
    (pc = "done" /\ IsExample) =>
        /\ search_ret = ExampleResults[1]
        /\ RatEQ(best_score, Rat(13, 15))
        /\ RatEQ(ScoreOf(2), Rat(6, 10))

\* the example has been searched and a match reported
C9_Witness == pc = "done" /\ IsExample /\ search_ret # NoneResult

----------------------------------------------------------------------------
(* Properties of the transfer paths *)

\* the similarity score of a video of the catalogue against a song
MatchScore(song, v) ==
    calculate_similarity_score(song.name, song.artist,
                               get_title(Catalogue[v]), get_artist(Catalogue[v]))

\* C4: on every transfer path a search result is selected for a song and
\* recorded as transferred only if its score against the song is above 0.6.
C4_SelectionAboveFloor ==
    /\ \A k \in 1..Len(song_results) :
          song_results[k].transfer_status = "success" =>
              RatGT(MatchScore(song_results[k].song, song_results[k].youtube_video_id),
                    Threshold)
    /\ \A k \in 1..Len(added_items) :
          RatGT(MatchScore(added_items[k].song, added_items[k].videoId), Threshold)

\* C4 on transfer_playlist alone
C4_OnTransferPlaylist ==
    \A k \in 1..Len(song_results) :
        song_results[k].transfer_status = "success" =>
            /\ RatGT(MatchScore(song_results[k].song, song_results[k].youtube_video_id),
                     Threshold)
            /\ RatEQ(song_results[k].match_confidence,
                     MatchScore(song_results[k].song, song_results[k].youtube_video_id))

----------------------------------------------------------------------------
(* Properties of the normalizer *)

RECURSIVE join(_)
\* " ".join(l)
join(l) == IF l = <<>> THEN <<>>
           ELSE IF Len(l) = 1 THEN l[1]
           ELSE l[1] \o <<" ">> \o join(Tail(l))

\* the token set S written out as a string, in every order of its tokens
Renderings(S) ==
    {join(f) : f \in {g \in [1..Cardinality(S) -> S] :
                        \A i, j \in 1..Cardinality(S) : g[i] = g[j] => i = j}}

\* C10: normalizing a rendering of normalize(s) gives normalize(s) again, and
\* the empty string gives the empty token set.
C10_NormalizeIdempotent ==
    pc = "done" =>
        /\ \A r \in Renderings(norm_ret) : words(r) = norm_ret
        /\ norm_s = <<>> => norm_ret = {}

\* a string with upper case and punctuation normalized to a token
C10_Witness ==
    /\ pc = "done"
    /\ norm_ret # {}
    /\ \E i \in 1..Len(norm_s) : norm_s[i] = "!"
    /\ \E i \in 1..Len(norm_s) : norm_s[i] = "A"

----------------------------------------------------------------------------
(* Properties of get_unified_stats *)

Aggregated == pc = "done" /\ unified_stats # NoneResult

\* the names of a top_artists or top_genres list, and of a top_tracks list
NamesOf(list) == [p \in 1..Len(list) |-> list[p].name]
TracksOf(list) == [p \in 1..Len(list) |-> list[p].track]

NoCaseVariants(keys) ==
    \A p, q \in 1..Len(keys) : lower(keys[p]) = lower(keys[q]) => p = q

\* C11: entries whose names differ only in letter case are summed into one
\* item: no list of the unified profile holds two items whose names are equal
\* when case is ignored
C11_MergedByCaseInsensitiveName ==
    Aggregated =>
        /\ NoCaseVariants(NamesOf(unified_stats.top_artists))
        /\ NoCaseVariants(NamesOf(unified_stats.top_genres))
        /\ NoCaseVariants(TracksOf(unified_stats.top_tracks))

\* the items the three counters hold when the loop over the connections ends,
\* in first-seen order
Merged == combine_loop([artists |-> <<>>, genres |-> <<>>, tracks |-> <<>>], connections, 1)

\* the item of a counter that has the key given
ItemOf(items, key) == CHOOSE i \in 1..Len(items) : items[i].key = key

\* item i goes before item j: more weight, or equal weight and seen first
GoesBefore(items, i, j) ==
    items[i].count > items[j].count \/ (items[i].count = items[j].count /\ i < j)

\* list (whose names are keys) is the first cap items in that order, with
\* the rank of each equal to its position
IsRankedPrefix(list, keys, items, cap) ==
    /\ Len(list) = (IF Len(items) < cap THEN Len(items) ELSE cap)
    /\ \A p \in 1..Len(list) :
          /\ list[p].rank = p
          /\ \E i \in 1..Len(items) : items[i].key = keys[p]
          /\ list[p].minutes = items[ItemOf(items, keys[p])].count
    /\ \A p, q \in 1..Len(list) :
          p < q => GoesBefore(items, ItemOf(items, keys[p]), ItemOf(items, keys[q]))
    /\ \A i \in 1..Len(items) :
          (\A p \in 1..Len(list) : keys[p] # items[i].key)
              => \A p \in 1..Len(list) : GoesBefore(items, ItemOf(items, keys[p]), i)

\* C12: top_artists, top_genres and top_tracks are the first 20, 15 and 50 of
\* the merged items in descending order of summed weight, equal weights in
\* first-seen order, and the entry at position i has rank i
C12_RankedAndTruncated ==
    Aggregated =>
        LET merged == Merged
        IN  /\ IsRankedPrefix(unified_stats.top_artists, NamesOf(unified_stats.top_artists),
                              merged.artists, 20)
            /\ IsRankedPrefix(unified_stats.top_genres, NamesOf(unified_stats.top_genres),
                              merged.genres, 15)
            /\ IsRankedPrefix(unified_stats.top_tracks, TracksOf(unified_stats.top_tracks),
                              merged.tracks, 50)

\* more artists than the list holds were merged, the last one kept and the
\* first one dropped have the same weight, and so have two of the genres kept
C12_Witness ==
    /\ Aggregated
    /\ Len(Merged.artists) > Len(unified_stats.top_artists)
    /\ \E i \in 1..Len(Merged.artists) :
          /\ \A p \in 1..Len(unified_stats.top_artists) :
                unified_stats.top_artists[p].name # Merged.artists[i].key
          /\ Merged.artists[i].count
                = unified_stats.top_artists[Len(unified_stats.top_artists)].minutes
    /\ \E p \in 1..Len(unified_stats.top_genres) :
          /\ p > 1
          /\ unified_stats.top_genres[p].minutes = unified_stats.top_genres[p - 1].minutes

RECURSIVE SumOfMinutes(_)
SumOfMinutes(breakdown) ==
    IF breakdown = <<>> THEN 0 ELSE Head(breakdown).minutes + SumOfMinutes(Tail(breakdown))

\* tenths is a multiple of 0.1 nearest to minutes / total * 100
IsShareInTenths(tenths, minutes, total) ==
    LET d == tenths * total - 1000 * minutes
    IN  2 * (IF d < 0 THEN 0 - d ELSE d) <= total

\* C13: total_minutes is the sum of the minutes of the platforms in the
\* breakdown; each percentage is minutes / total_minutes * 100 rounded to one
\* decimal, and 0 when total_minutes is 0
C13_BreakdownPercentages ==
    Aggregated =>
        LET breakdown == unified_stats.platform_breakdown
            total == SumOfMinutes(breakdown)
        IN  /\ unified_stats.total_minutes = total
            /\ \A i \in 1..Len(breakdown) :
                  IF total = 0
                  THEN breakdown[i].percentage = 0
                  ELSE IsShareInTenths(breakdown[i].percentage, breakdown[i].minutes, total)

\* two platforms with one and two minutes: 33.3 and 66.7
C13_Witness ==
    /\ Aggregated
    /\ Len(unified_stats.platform_breakdown) = 2
    /\ unified_stats.total_minutes = 3
    /\ unified_stats.platform_breakdown[1].percentage = 333
    /\ unified_stats.platform_breakdown[2].percentage = 667

\* the unified profile of the same connections in the opposite order, and the
\* items its counters hold
Swapped == get_unified_stats(Reverse(connections))
MergedSwapped ==
    combine_loop([artists |-> <<>>, genres |-> <<>>, tracks |-> <<>>], Reverse(connections), 1)

TwoPlatforms == Aggregated /\ Len(connections) = 2

SameTotals(swapped) ==
    /\ unified_stats.total_minutes = swapped.total_minutes
    /\ unified_stats.total_tracks = swapped.total_tracks
    /\ unified_stats.platforms_connected = swapped.platforms_connected
    /\ set(unified_stats.platform_breakdown) = set(swapped.platform_breakdown)

\* the two lists hold the same items with the same weights, and an item is at
\* another position only if its weight equals that of another item of the list
SameItemsUpToTies(a, keysA, b, keysB) ==
    /\ Len(a) = Len(b)
    /\ \A p \in 1..Len(a) : \E q \in 1..Len(b) :
          /\ keysB[q] = keysA[p]
          /\ b[q].minutes = a[p].minutes
          /\ q = p \/ \E r \in 1..Len(a) : r # p /\ a[r].minutes = a[p].minutes

\* C14 as stated: [P1,P2] and [P2,P1] give the same totals and the same items
\* with the same summed weights and ranks, up to the relative order of items
\* of exactly equal summed weight
C14_OrderIndependent ==
    TwoPlatforms =>
        LET swapped == Swapped
        IN  /\ SameTotals(swapped)
            /\ SameItemsUpToTies(unified_stats.top_artists, NamesOf(unified_stats.top_artists),
                                 swapped.top_artists, NamesOf(swapped.top_artists))
            /\ SameItemsUpToTies(unified_stats.top_genres, NamesOf(unified_stats.top_genres),
                                 swapped.top_genres, NamesOf(swapped.top_genres))
            /\ SameItemsUpToTies(unified_stats.top_tracks, TracksOf(unified_stats.top_tracks),
                                 swapped.top_tracks, TracksOf(swapped.top_tracks))

\* the two lists have the same weight and rank at every position, and hold
\* different items at a position only if another merged item has that weight
SameWeightsByRank(a, keysA, b, keysB, items) ==
    /\ Len(a) = Len(b)
    /\ \A p \in 1..Len(a) :
          /\ a[p].minutes = b[p].minutes
          /\ a[p].rank = b[p].rank
          /\ keysA[p] # keysB[p] =>
                \E i \in 1..Len(items) :
                    items[i].key # keysA[p] /\ items[i].count = a[p].minutes

\* C14 amended: [P1,P2] and [P2,P1] give the same totals and platform shares,
\* the same summed weight for every name and the same weight at every rank;
\* the lists differ only in items whose summed weight another merged item
\* shares (their order and, at the cap, which of them is kept)
C14_OrderIndependentWeights ==
    TwoPlatforms =>
        LET swapped == Swapped
            merged == Merged
            mergedSwapped == MergedSwapped
        IN  /\ SameTotals(swapped)
            /\ set(merged.artists) = set(mergedSwapped.artists)
            /\ set(merged.genres) = set(mergedSwapped.genres)
            /\ set(merged.tracks) = set(mergedSwapped.tracks)
            /\ SameWeightsByRank(unified_stats.top_artists, NamesOf(unified_stats.top_artists),
                                 swapped.top_artists, NamesOf(swapped.top_artists),
                                 merged.artists)
            /\ SameWeightsByRank(unified_stats.top_genres, NamesOf(unified_stats.top_genres),
                                 swapped.top_genres, NamesOf(swapped.top_genres),
                                 merged.genres)
            /\ SameWeightsByRank(unified_stats.top_tracks, TracksOf(unified_stats.top_tracks),
                                 swapped.top_tracks, TracksOf(swapped.top_tracks),
                                 merged.tracks)

\* both platforms contribute artists and the two orders keep different artists
C14_Witness ==
    /\ TwoPlatforms
    /\ \A i \in 1..2 : /\ connections[i].stats # NoStats
                       /\ "top_artists" \in DOMAIN connections[i].stats
                       /\ connections[i].stats.top_artists # <<>>
    /\ set(NamesOf(unified_stats.top_artists)) # set(NamesOf(Swapped.top_artists))

HasNotADict(entries) == \E i \in 1..Len(entries) : ~IsDict(entries[i])

\* a row with a null top_* column or with an entry that is not a dict
Malformed(stats) ==
    /\ stats # NoStats
    /\ \/ {"top_artists", "top_genres", "top_tracks"} \ DOMAIN stats # {}
       \/ "top_artists" \in DOMAIN stats /\ HasNotADict(stats.top_artists)
       \/ "top_genres" \in DOMAIN stats /\ HasNotADict(stats.top_genres)
       \/ "top_tracks" \in DOMAIN stats /\ HasNotADict(stats.top_tracks)

\* C15: when the stats row of a platform is malformed the aggregation fails as
\* a whole: no unified profile is returned
C15_MalformedFailsFast ==
    (pc = "done" /\ \E i \in 1..Len(connections) : Malformed(connections[i].stats))
        => "top_artists" \notin DOMAIN unified_stats

----------------------------------------------------------------------------
(* Properties of calculate_music_compatibility *)

Compared == pc = "done" /\ compatibility # NoneResult

\* the sizes of the overlap and of the union of the names of two top lists,
\* compared without case; the overlap of an empty list with any list counts 0
\* of 1
Overlap(list1, list2) ==
    LET set1 == {lower(list1[i].name) : i \in 1..Len(list1)}
        set2 == {lower(list2[i].name) : i \in 1..Len(list2)}
    IN  IF list1 = <<>> \/ list2 = <<>> THEN [shared |-> 0, all |-> 1]
        ELSE [shared |-> Cardinality(set1 \cap set2), all |-> Cardinality(set1 \cup set2)]

Distance(a, b) == IF a < b THEN b - a ELSE a - b

InRange(tenths) == 0 <= tenths /\ tenths <= 1000

\* the weighted sum of the reported component scores, to the nearest tenth
\* (6 * a + 4 * g is even, so no sum lies halfway between two tenths)
WeightedReported ==
    (6 * compatibility.artist_compatibility + 4 * compatibility.genre_compatibility + 5) \div 10

\* C16 as stated: overall is 0.6 * artist + 0.4 * genre of the reported
\* one-decimal component scores, rounded to one decimal, and the three values
\* lie in [0, 100]
C16_OverallFromReported ==
    Compared =>
        /\ compatibility.overall_compatibility = WeightedReported
        /\ InRange(compatibility.overall_compatibility)
        /\ InRange(compatibility.artist_compatibility)
        /\ InRange(compatibility.genre_compatibility)

\* C16, amended: overall is 0.6 * artist + 0.4 * genre of the component scores
\* before their rounding (100 times the share of the common names among all
\* names), rounded to one decimal; each reported component is its score
\* rounded to one decimal; the three values lie in [0, 100]
C16_OverallFromUnrounded ==
    Compared =>
        LET a == Overlap(user1_stats.top_artists, user2_stats.top_artists)
            g == Overlap(user1_stats.top_genres, user2_stats.top_genres)
        IN  /\ 2 * Distance(compatibility.overall_compatibility * a.all * g.all,
                            600 * a.shared * g.all + 400 * g.shared * a.all)
                 <= a.all * g.all
            /\ 2 * Distance(compatibility.artist_compatibility * a.all, 1000 * a.shared)
                 <= a.all
            /\ 2 * Distance(compatibility.genre_compatibility * g.all, 1000 * g.shared)
                 <= g.all
            /\ InRange(compatibility.overall_compatibility)
            /\ InRange(compatibility.artist_compatibility)
            /\ InRange(compatibility.genre_compatibility)

\* a comparison whose overall is not the weighted sum of the reported scores
C16_Witness ==
    /\ Compared
    /\ compatibility.overall_compatibility # WeightedReported
    /\ compatibility.artist_compatibility > 0

\* the two users have the same unified profile, with artists and genres
IdenticalProfiles ==
    /\ Compared
    /\ user1_stats = user2_stats
    /\ user1_stats.top_artists # <<>>
    /\ user1_stats.top_genres # <<>>

\* C17: a profile compared with an identical profile whose top_artists and
\* top_genres are not empty has overall 100.0
C17_IdenticalIsHundred ==
    IdenticalProfiles => compatibility.overall_compatibility = 1000

\* identical profiles with more than one artist were compared
C17_Witness ==
    /\ IdenticalProfiles
    /\ Len(user1_stats.top_artists) > 1
    /\ compatibility.overall_compatibility = 1000

\* what the comparison gives with the two users exchanged
SwappedResult == calculate_music_compatibility(other_connections, self_connections).result

\* C18 as stated: the whole result of compatibility(X, Y) equals that of
\* compatibility(Y, X)
C18_Symmetric ==
    Compared => compatibility = SwappedResult

\* the weight a profile's list gives to a name compared without case: that of
\* the last entry with the name
WeightOf(list, n) ==
    LET last == CHOOSE i \in 1..Len(list) :
                    /\ lower(list[i].name) = n
                    /\ \A j \in (i + 1)..Len(list) : lower(list[j].name) # n
    IN  list[last].minutes

\* no other name shared by the two lists has the summed weight of name n
UniqueSum(list1, list2, n) ==
    LET names == {lower(list1[i].name) : i \in 1..Len(list1)}
                     \cap {lower(list2[i].name) : i \in 1..Len(list2)}
        sum(m) == WeightOf(list1, m) + WeightOf(list2, m)
    IN  \A m \in names \ {n} : sum(m) # sum(n)

\* the shared lists of the two results have the same summed weights, and an
\* entry with a summed weight of its own is at the same place in both, with
\* the weights of the two users exchanged
MirroredShared(shared, mirrored, list1, list2) ==
    /\ Len(shared) = Len(mirrored)
    /\ \A i \in 1..Len(shared) :
        /\ shared[i].user1_minutes + shared[i].user2_minutes
               = mirrored[i].user1_minutes + mirrored[i].user2_minutes
        /\ UniqueSum(list1, list2, lower(shared[i].name)) =>
               /\ lower(mirrored[i].name) = lower(shared[i].name)
               /\ mirrored[i].user1_minutes = shared[i].user2_minutes
               /\ mirrored[i].user2_minutes = shared[i].user1_minutes

\* C18, amended: compatibility(X, Y) and compatibility(Y, X) have the same
\* three scores and the same tier, and shared lists that mirror each other
\* except for the order and the cut of names with equal summed weights
C18_SymmetricScores ==
    Compared =>
        LET swapped == SwappedResult
        IN  /\ swapped.overall_compatibility = compatibility.overall_compatibility
            /\ swapped.artist_compatibility = compatibility.artist_compatibility
            /\ swapped.genre_compatibility = compatibility.genre_compatibility
            /\ swapped.compatibility_level = compatibility.compatibility_level
            /\ MirroredShared(compatibility.shared_artists, swapped.shared_artists,
                              user1_stats.top_artists, user2_stats.top_artists)
            /\ MirroredShared(compatibility.shared_genres, swapped.shared_genres,
                              user1_stats.top_genres, user2_stats.top_genres)

\* two artists with different summed weights are shared and the result with
\* the users exchanged is another one
C18_Witness ==
    /\ Compared
    /\ Len(compatibility.shared_artists) > 1
    /\ \E i \in 1..Len(compatibility.shared_artists) :
           UniqueSum(user1_stats.top_artists, user2_stats.top_artists,
                     lower(compatibility.shared_artists[i].name))
    /\ compatibility # SwappedResult

\* the tier of a score given in tenths, lower bounds included
TierOf(tenths) ==
    IF tenths >= 800 THEN "Gemelos Musicales"
    ELSE IF tenths >= 650 THEN "Muy Compatible"
    ELSE IF tenths >= 500 THEN "Compatible"
    ELSE IF tenths >= 350 THEN "Algo en Común"
    ELSE IF tenths >= 200 THEN "Diferente Onda"
    ELSE "Mundos Aparte"

\* C19: the tier of a result is the one its reported overall score determines:
\* Twins from 80.0, VeryCompatible from 65.0, Compatible from 50.0,
\* SomethingInCommon from 35.0, DifferentVibe from 20.0, WorldsApart below
C19_TierOfReportedOverall ==
    Compared =>
        compatibility.compatibility_level.level = TierOf(compatibility.overall_compatibility)

\* the users of the example were compared
ExampleCompared ==
    /\ Compared
    /\ self_connections = OneConnection(ExampleRowA)
    /\ other_connections = OneConnection(ExampleRowB)

\* C20: for A = [Daft Punk (300), Drake (200)] and B = [Daft Punk (150),
\* Kanye West (100)] without genres the artist score is 33.3, overall is 20.0
\* and the tier is DifferentVibe
C20_ExampleIsDifferentVibe ==
    ExampleCompared =>
        /\ compatibility.artist_compatibility = 333
        /\ compatibility.overall_compatibility = 200
        /\ compatibility.compatibility_level.level = "Diferente Onda"

\* a profile without top artists and without top genres
EmptyTopLists(stats) == stats.top_artists = <<>> /\ stats.top_genres = <<>>

\* C21: when one of the two profiles has no top artists and no top genres the
\* comparison returns a result, with overall 0, the tier WorldsApart and empty
\* shared lists
C21_EmptyProfileIsZero ==
    (pc = "done" /\ (EmptyTopLists(user1_stats) \/ EmptyTopLists(user2_stats))) =>
        /\ compatibility # NoneResult
        /\ compatibility.overall_compatibility = 0
        /\ compatibility.compatibility_level.level = "Mundos Aparte"
        /\ compatibility.shared_artists = <<>>
        /\ compatibility.shared_genres = <<>>

\* a user without top lists was compared with a user who has artists
C21_Witness ==
    /\ Compared
    /\ EmptyTopLists(user1_stats)
    /\ user2_stats.top_artists # <<>>
    /\ compatibility.overall_compatibility = 0

\* the names two top lists share, compared without case
SharedNames(list1, list2) ==
    {lower(list1[i].name) : i \in 1..Len(list1)} \cap {lower(list2[i].name) : i \in 1..Len(list2)}

\* shared is the head of the shared names of the two lists in descending order
\* of summed weight: every entry is a shared name with its weight in each
\* list, no name comes twice, the sums do not rise, and a shared name is left
\* out only when 10 entries with sums at least as large are kept
IsSharedHead(shared, list1, list2) ==
    LET names == SharedNames(list1, list2)
        sum(n) == WeightOf(list1, n) + WeightOf(list2, n)
        kept == {lower(shared[i].name) : i \in 1..Len(shared)}
    IN  /\ \A i \in 1..Len(shared) :
            /\ lower(shared[i].name) \in names
            /\ shared[i].user1_minutes = WeightOf(list1, lower(shared[i].name))
            /\ shared[i].user2_minutes = WeightOf(list2, lower(shared[i].name))
        /\ \A i, j \in 1..Len(shared) :
            /\ i # j => lower(shared[i].name) # lower(shared[j].name)
            /\ i < j => shared[i].user1_minutes + shared[i].user2_minutes
                            >= shared[j].user1_minutes + shared[j].user2_minutes
        /\ Len(shared) = IF Cardinality(names) < 10 THEN Cardinality(names) ELSE 10
        /\ \A n \in names \ kept : \A i \in 1..Len(shared) : sum(lower(shared[i].name)) >= sum(n)

\* C22: shared_artists and shared_genres hold only names that both profiles
\* have, each once, in descending order of user1_weight + user2_weight, and are
\* the first 10 entries of the whole sorted list of shared names
C22_SharedListsSortedAndCut ==
    Compared =>
        /\ IsSharedHead(compatibility.shared_artists,
                        user1_stats.top_artists, user2_stats.top_artists)
        /\ IsSharedHead(compatibility.shared_genres,
                        user1_stats.top_genres, user2_stats.top_genres)

\* more than 10 artists with different summed weights are shared
C22_Witness ==
    /\ Compared
    /\ Cardinality(SharedNames(user1_stats.top_artists, user2_stats.top_artists)) > 10
    /\ Len(compatibility.shared_artists) = 10
    /\ compatibility.shared_artists[1].user2_minutes > compatibility.shared_artists[10].user2_minutes

----------------------------------------------------------------------------
(* Properties of the music_compatibility view *)

\* no connection of the user has a stats row
NoMusicalData(conns) == \A i \in 1..Len(conns) : conns[i].stats = NoStats

\* C23: a request that compares two users of whom one has no musical data is
\* answered as insufficient data (the 400 response of the view), never with a
\* zero score presented as a compatibility result
C23_InsufficientDataSignalled ==
    (/\ pc = "done"
     /\ user1_stats # NoneResult
     /\ NoMusicalData(self_connections) \/ NoMusicalData(other_connections))
        => /\ response.status = 400
           /\ "compatibility" \notin DOMAIN response

----------------------------------------------------------------------------
(* Properties of get_music_recommendations *)

\* the friends of the call with the compatibility the service obtains for each
FriendScores ==
    [i \in 1..Len(friendships) |->
        get_or_calculate_compatibility(self_connections, friendships[i])]

\* friend i has a compatibility of 40 or more
Qualifies(scores, i) ==
    scores[i] # NoneResult /\ scores[i].overall_compatibility >= 400

\* fewer than 5 friends have a higher compatibility than friend i
AmongTopFive(scores, i) ==
    Cardinality({j \in 1..Len(scores) :
                    /\ scores[j] # NoneResult
                    /\ scores[j].overall_compatibility > scores[i].overall_compatibility}) < 5

\* the first 10 entries of top_artists in the unified statistics of friend i
FirstTen(i) ==
    slice_to(get_unified_stats(friendships[i].connections).top_artists, 10)

\* for each friend, the first 10 entries of top_artists
FriendTops == [i \in 1..Len(friendships) |-> FirstTen(i)]

\* friend i gave the recommendation: name and score are the friend's
GivenBy(scores, rec, i) ==
    /\ rec.recommended_by = friendships[i].display_name
    /\ scores[i] # NoneResult
    /\ rec.compatibility_score = scores[i].overall_compatibility

\* C24: every recommendation returned names a friend whose overall
\* compatibility with the user is 40 or more and who is among the 5 friends
\* with the highest overall compatibility, and its artist is one of the first
\* 10 of that friend's top_artists
C24_FromTopCompatibleFriends ==
    pc = "done" =>
        \A scores \in {FriendScores} : \A tops \in {FriendTops} :
            \A p \in 1..Len(recommendations) :
                \E i \in 1..Len(friendships) :
                    /\ GivenBy(scores, recommendations[p], i)
                    /\ Qualifies(scores, i)
                    /\ AmongTopFive(scores, i)
                    /\ \E q \in 1..Len(tops[i]) :
                           tops[i][q].name = recommendations[p].artist_name

\* six friends qualify and each has an 11th artist; recommendations are returned
C24_Witness ==
    /\ pc = "done"
    /\ models_found
    /\ recommendations # <<>>
    /\ LET scores == FriendScores
       IN  Cardinality({i \in 1..Len(friendships) : Qualifies(scores, i)}) > 5
    /\ \E i \in 1..Len(friendships) :
           Len(get_unified_stats(friendships[i].connections).top_artists) > 10

\* the lowercased names of the user's own top_artists
UserArtists == lower_names(get_unified_stats(self_connections).top_artists)

\* the friend with the display_name given
FriendNamed(name) ==
    CHOOSE i \in 1..Len(friendships) : friendships[i].display_name = name

\* the position of the artist in the top_artists given
RankOf(top, artist) ==
    CHOOSE q \in 1..Len(top) : top[q].name = artist

\* C25: no recommendation names an artist that is, compared without case, in
\* the user's own top_artists; the recommendations are in order of descending
\* friend compatibility and, for one friend, in the friend's artist rank order
C25_NewArtistsInOrder ==
    pc = "done" =>
        \A own_artists \in {UserArtists} : \A tops \in {FriendTops} :
            /\ \A p \in 1..Len(recommendations) :
                   lower(recommendations[p].artist_name) \notin own_artists
            /\ \A p, q \in 1..Len(recommendations) :
                   p < q =>
                     /\ recommendations[p].compatibility_score
                            >= recommendations[q].compatibility_score
                     /\ recommendations[p].recommended_by = recommendations[q].recommended_by
                          => RankOf(tops[FriendNamed(recommendations[p].recommended_by)],
                                    recommendations[p].artist_name)
                               < RankOf(tops[FriendNamed(recommendations[q].recommended_by)],
                                        recommendations[q].artist_name)

\* a friend has an artist of the user in another case; two recommendations of
\* one friend are followed by one of a less compatible friend
C25_Witness ==
    /\ pc = "done"
    /\ models_found
    /\ \E i \in 1..Len(friendships) :
           \E q \in 1..Len(FirstTen(i)) :
               /\ lower(FirstTen(i)[q].name) \in UserArtists
               /\ FirstTen(i)[q].name \notin UserArtists
    /\ Len(recommendations) >= 3
    /\ recommendations[1].recommended_by = recommendations[2].recommended_by
    /\ recommendations[2].compatibility_score > recommendations[3].compatibility_score

\* for each friend, the lowercased names of the first 10 of top_artists
FriendOffers ==
    [i \in 1..Len(friendships) |->
        UNION {{lower(top[q].name) : q \in 1..Len(top)} : top \in {FirstTen(i)}}]

\* C26: the list returned has at most limit entries and no two entries with
\* the same artist name compared without case; of the qualifying friends who
\* have the artist of an entry, none is more compatible than the friend the
\* entry is from
C26_LimitedUniqueFromBestFriend ==
    pc = "done" =>
        \A scores \in {FriendScores} : \A offers \in {FriendOffers} :
            /\ Len(recommendations) <= limit
            /\ \A p, q \in 1..Len(recommendations) :
                   p # q => lower(recommendations[p].artist_name)
                              # lower(recommendations[q].artist_name)
            /\ \A p \in 1..Len(recommendations) :
                   \A i \in 1..Len(friendships) :
                       /\ Qualifies(scores, i)
                       /\ lower(recommendations[p].artist_name) \in offers[i]
                       => recommendations[p].compatibility_score
                            >= scores[i].overall_compatibility

\* two qualifying friends of different compatibility have the artist of an
\* entry, the less compatible one in another case only; the limit is reached
\* and an artist of a qualifying friend is left out by it
C26_Witness ==
    /\ pc = "done"
    /\ models_found
    /\ limit > 0
    /\ Len(recommendations) = limit
    /\ LET scores == FriendScores
           offers == FriendOffers
           returned == {lower(recommendations[p].artist_name) : p \in 1..Len(recommendations)}
       IN  /\ \E p \in 1..Len(recommendations) : \E i, j \in 1..Len(friendships) :
                  /\ Qualifies(scores, i) /\ Qualifies(scores, j)
                  /\ scores[i].overall_compatibility > scores[j].overall_compatibility
                  /\ lower(recommendations[p].artist_name) \in offers[i] \cap offers[j]
                  /\ \A q \in 1..Len(FirstTen(j)) :
                         FirstTen(j)[q].name # recommendations[p].artist_name
           /\ \E i \in 1..Len(friendships) :
                  /\ Qualifies(scores, i)
                  /\ (offers[i] \ UserArtists) \ returned # {}

----------------------------------------------------------------------------
(* Properties of transfer_playlist *)

\* the song at position i of the playlist was transferred: its
\* SongTransferResult, the i-th created, says success
Succeeded(i) ==
    i <= Len(song_results) /\ song_results[i].transfer_status = "success"

\* transfer_playlist has ended, by return or by exception
TransferEnded == run = "transfer_playlist" /\ pc = "done"

\* C29: when transfer_playlist finishes on a playlist with at least one song
\* the status is completed exactly when no song failed, partial exactly when a
\* song succeeded and a song failed, failed exactly when no song succeeded; on
\* a playlist without songs it is failed with an error and no song results;
\* completed_at is set in every case
C29_FinalStatusFromOutcomes ==
    TransferEnded =>
        LET positions == 1..Len(playlist_songs)
            some_succeeded == \E i \in positions : Succeeded(i)
            some_failed == \E i \in positions : ~Succeeded(i)
        IN  /\ job.completed_at
            /\ IF positions = {}
               THEN job.status = "failed" /\ job.error_message # "" /\ song_results = <<>>
               ELSE /\ job.status = "completed" <=> ~some_failed
                    /\ job.status = "partial" <=> (some_succeeded /\ some_failed)
                    /\ job.status = "failed" <=> ~some_succeeded

\* the loop of transfer_playlist is running or was left
InTransferLoop ==
    run = "transfer_playlist" /\ pc \in {"loop", "done"} /\ Len(playlist_songs) > 0

\* the counters of the job, the song results and the percentage agree
ProgressConsistent ==
    /\ job.processed_songs = job.successful_transfers + job.failed_transfers
    /\ job.processed_songs <= job.total_songs
    /\ Len(song_results) = job.processed_songs
    /\ \A i \in 1..Len(song_results) : song_results[i].song = playlist_songs[i]
    /\ job.progress_percentage = (100 * job.processed_songs) \div job.total_songs
    /\ job.progress_percentage \in 0..100

\* the loop has gone through every song
LoopEnded == InTransferLoop /\ position = Len(playlist_songs)

\* C30: at every progress update processed_songs = successful_transfers +
\* failed_transfers <= total_songs, there is one SongTransferResult per
\* processed song, progress_percentage = floor(100 * processed_songs /
\* total_songs) is in 0..100 and never decreases; when the loop ends
\* processed_songs = total_songs and progress_percentage = 100
C30_ProgressInvariants ==
    /\ [](InTransferLoop => ProgressConsistent)
    /\ [][InTransferLoop => job'.progress_percentage >= job.progress_percentage]_vars
    /\ [](LoopEnded => job.processed_songs = job.total_songs
                       /\ job.progress_percentage = 100)

----------------------------------------------------------------------------
(* Properties of the TransferJob life cycle *)

\* the job of request r: the row in its open transaction, else the committed row
JobOf(r) == IF InTransaction(r) THEN requests[r].transfer_job ELSE db_jobs[r]

ActiveJobs == {r \in Requests : JobOf(r).status \in {"pending", "processing"}}

\* C27: under any interleaving of start_transfer requests for one playlist at
\* most one TransferJob of the playlist is pending or processing at any time;
\* a request that finds an active job is rejected and creates no job
C27_AtMostOneActiveJob ==
    /\ Cardinality(ActiveJobs) <= 1
    /\ \A r \in Requests :
           requests[r].status_code = 400
               => requests[r].transfer_job = NoJob /\ db_jobs[r] = NoJob

Finished == {"completed", "partial", "failed"}

\* the status changes the claim allows: pending to processing, processing to a
\* finished status, and an unfinished job to failed
AllowedMoves ==
    {<<"pending", "processing">>, <<"pending", "failed">>}
        \cup {<<"processing", status>> : status \in Finished}

\* C28: a TransferJob only moves from pending to processing to completed,
\* partial or failed, and its status never changes once it is finished;
\* cancel_transfer is rejected for a finished job and turns an unfinished job
\* into failed
C28_StatusMovesForward ==
    [][\A r \in Requests :
          /\ JobOf(r) # NoJob
          /\ JobOf(r)' # NoJob
          /\ JobOf(r)'.status # JobOf(r).status
          => <<JobOf(r).status, JobOf(r)'.status>> \in AllowedMoves]_vars
====
